---- MODULE Spec2Model ----
(***************************************************************************)
(* A model of the text-analysis and matching engine of the resume toolkit: *)
(*   - the process-wide NER handle of slm_module/parser.py and the entity  *)
(*     extractor built on it (threads interleave at statement level);      *)
(*   - the two resume parsers (utils/resume_parser.py and                  *)
(*     slm_module/parser.py), as functions of an abstracted text;          *)
(*   - the skill comparisons of core_logic/job_analyzer.py,                *)
(*     pages/02_Job_Analyzer.py and app/routers/resume.py.                 *)
(*   - the in-memory stores behind the endpoints of backend/main.py and    *)
(*     app/routers/resume.py, the session state of the Streamlit pages,    *)
(*     and the date extraction of the SLM parser.                          *)
(* Python strings are sequences of one-character strings; Python None is   *)
(* the empty sequence where a handle is expected.                          *)
(***************************************************************************)
EXTENDS Integers, Sequences, FiniteSets, TLC

VARIABLES
    ner_pipeline,               \* slm_module/parser.py:58  <<>> is None, <<k>> the k-th constructed pipeline
    loads,                      \* number of pipeline(...) constructions that completed successfully
    attempts,                   \* number of pipeline(...) constructions started
    loadFailed,                 \* some construction raised (lines 81-86 ran)
    th,                         \* per thread: position, locals and last results
    p_in,                       \* the resume parser call: which parser, the text, injected fault, loader outcome
    p_out,                      \* what the call returned (or that it raised)
    m_in,                       \* the comparison call: resume skills and job words / skills
    m_out,                      \* what each comparison returned
    last_analyzed_resume_slm,   \* backend/main.py:51  <<>> is None, <<r>> the stored record
    last_job_description_text,  \* backend/main.py:56  <<>> is None, <<t>> the stored text
    b_last,                     \* the backend request handled last, with its response
    j_in,                       \* the job text given to utils.job_analyzer.analyze_job_text
    j_out,                      \* what analyze_job_text returned
    s_in,                       \* the resume text given to a section extractor, as lines
    s_out,                      \* the section text each extractor captured
    rb_step_index,              \* pages/03_Resume_Builder.py:31  st.session_state.rb_step_index
    rb_fields,                  \* pages/03_Resume_Builder.py:12  the rb_ form fields of the session state
    rb_click,                   \* the Resume Builder button pressed last
    JOB_DESCRIPTIONS,           \* app/routers/resume.py:19  per id: <<>> when absent, <<entry>> when stored
    jd_issued,                  \* number of ids uuid4 has handed out to add_job_description
    r_last,                     \* the router request handled last, with its response
    current_resume_data,        \* backend/main.py:46  <<>> is None, <<d>> the resume of the builder
    job_description_text,       \* pages/02_Job_Analyzer.py:22  st.session_state.job_description_text
    job_analysis_results,       \* pages/02_Job_Analyzer.py:24  <<>> is None, <<r>> the stored analysis
    ja_last,                    \* the Job Analyzer submission handled last: inputs, scraper answer, text analysed
    d_in,                       \* the text of an entry block given to extract_dates, as its words
    d_out                       \* the dates field and the entry text that is parsed further

loaderVars == <<ner_pipeline, loads, attempts, loadFailed, th>>
parseVars  == <<p_in, p_out>>
matchVars  == <<m_in, m_out>>
storedVars == <<last_analyzed_resume_slm, last_job_description_text>>
backendVars == <<last_analyzed_resume_slm, last_job_description_text, b_last>>
jobVars == <<j_in, j_out>>
segVars == <<s_in, s_out>>
routerVars == <<JOB_DESCRIPTIONS, jd_issued, r_last>>
builderPageVars == <<rb_step_index, rb_fields, rb_click>>
builderVars == <<current_resume_data>>
jobPageVars == <<job_description_text, job_analysis_results, ja_last>>
datesVars == <<d_in, d_out>>
appVars == <<rb_step_index, rb_fields, rb_click, JOB_DESCRIPTIONS, jd_issued, r_last, current_resume_data, job_description_text, job_analysis_results, ja_last, d_in, d_out>>
vars == <<ner_pipeline, loads, attempts, loadFailed, th, p_in, p_out, m_in, m_out,
          last_analyzed_resume_slm, last_job_description_text, b_last,
          j_in, j_out, s_in, s_out,
         appVars>>

(***************************************************************************)
(* Bounds of the model.                                                    *)
(***************************************************************************)
NThreads == 2
MaxAttempts == 2

Threads == 1..NThreads

\* Python's None where a record or list is expected.
None == <<>>

\* No backend request has been handled.
NoRequest == [kind |-> "none"]

\* pages/03_Resume_Builder.py:12-20  the form fields and their defaults.
RB_FIELDS_DEFINITIONS ==
    [rb_name |-> "", rb_email |-> "", rb_phone |-> "", rb_linkedin |-> "",
     rb_portfolio |-> "", rb_summary |-> "",
     rb_experience |-> <<>>, rb_education |-> <<>>, rb_skills |-> <<>>,
     rb_projects |-> <<>>, rb_awards |-> <<>>]

\* Job descriptions added in one behaviour.
MaxJobs == 2

\* app/routers/resume.py:81  the ids uuid4 hands out, in the order of issue.
JobIds == 1..MaxJobs

\* A JSON value sent as resume data: a dict (possibly empty, possibly
\* without a "name") or something that is not a dict.
ResumeDict(name, skills) == [dict |-> TRUE, empty |-> FALSE, name |-> name, skills |-> skills]

\* core_logic/resume_builder.py:23-60  the template (name and skills shown).
DEFAULT_RESUME_STRUCTURE == ResumeDict(<<"Your Name">>, <<"Skill 1", "Skill 2", "Skill 3">>)

\* core_logic/resume_builder.py:62-73  a deep copy of the template.
get_new_resume_data == DEFAULT_RESUME_STRUCTURE

(***************************************************************************)
(* slm_module/parser.py: the NER handle and the entity extractor.          *)
(***************************************************************************)

\* An entity as the pipeline reports it: its text and its group.
Entity(w, g) == [word |-> w, entity_group |-> g]

\* What one inference call may answer for a non-empty text.
InferenceAnswers ==
    { <<>>,
      <<Entity("Java", "MISC"), Entity("Jane", "PER"), Entity("Acme", "ORG")>> }

\* One call of the pipeline: it raises, or answers a list of entities.
InferenceOutcomes ==
    {[raises |-> TRUE, entities |-> <<>>]}
        \cup {[raises |-> FALSE, entities |-> a] : a \in InferenceAnswers}

LabelSets == { {"PER"}, {"MISC", "ORG"} }

RECURSIVE FilterWords(_, _)
\* [entity['word'] for entity in entities if entity['entity_group'] in entity_labels]
FilterWords(entities, labels) ==
    IF entities = <<>> THEN <<>>
    ELSE LET e == Head(entities)
             rest == FilterWords(Tail(entities), labels)
         IN IF e.entity_group \in labels THEN <<e.word>> \o rest ELSE rest

Returned(v) == [kind |-> "list", val |-> v]
Raised == [kind |-> "exc", val |-> <<>>]

\* Lines 145-151 without the try/except: the exception of the call escapes.
extract_entities_infer_NoTry(pipe, outcome, labels) ==
    IF pipe = None \/ outcome.raises THEN Raised
    ELSE Returned(FilterWords(outcome.entities, labels))

\* Lines 145-151: the inference call inside try/except Exception. `pipe` is
\* the global read again at line 146; calling None raises TypeError, which
\* the except clause catches like any inference error.
extract_entities_infer(pipe, outcome, labels) ==
    IF pipe = None \/ outcome.raises THEN Returned(<<>>)
    ELSE Returned(FilterWords(outcome.entities, labels))

\* A thread outside any call. seen is what line 76 read, handle the local
\* result of pipeline(...), ret the value load_slm_model returned, avail
\* what line 143 read, ext the value extract_entities_from_text returned.
IdleThread == [pc |-> "idle", seen |-> None, handle |-> None, ret |-> None,
               avail |-> FALSE, text |-> FALSE, labels |-> {}, ext |-> Returned(<<>>)]

AtRest(t) == th[t].pc \in {"idle", "load_done", "ext_done"}

LoaderInit ==
    /\ ner_pipeline = None
    /\ loads = 0
    /\ attempts = 0
    /\ loadFailed = FALSE
    /\ th = [t \in Threads |-> IdleThread]
    /\ p_in = None /\ p_out = None
    /\ m_in = None /\ m_out = None
    /\ last_analyzed_resume_slm = None /\ last_job_description_text = None
    /\ b_last = NoRequest
    /\ j_in = None /\ j_out = None /\ s_in = None /\ s_out = None
    /\ rb_step_index = 0
    /\ rb_fields = RB_FIELDS_DEFINITIONS
    /\ rb_click = "none"
    /\ JOB_DESCRIPTIONS = [i \in JobIds |-> None]
    /\ jd_issued = 0
    /\ r_last = NoRequest
    /\ current_resume_data = <<get_new_resume_data>>
    /\ job_description_text = <<>>
    /\ job_analysis_results = None
    /\ ja_last = NoRequest
    /\ d_in = None
    /\ d_out = None

\* A caller enters load_slm_model (line 60).
CallLoad(t) ==
    /\ AtRest(t)
    /\ attempts < MaxAttempts
    /\ th' = [th EXCEPT ![t] = [IdleThread EXCEPT !.pc = "load_check"]]
    /\ UNCHANGED <<ner_pipeline, loads, attempts, loadFailed, parseVars, matchVars, backendVars, jobVars, segVars, appVars>>

\* Line 76: if ner_pipeline is None.
LoadCheck(t) ==
    /\ th[t].pc = "load_check"
    /\ th' = [th EXCEPT ![t].pc =
                 IF ner_pipeline = None THEN "load_construct" ELSE "load_return",
                           ![t].seen = ner_pipeline]
    /\ UNCHANGED <<ner_pipeline, loads, attempts, loadFailed, parseVars, matchVars, backendVars, jobVars, segVars, appVars>>

\* Line 79, right-hand side: pipeline("ner", ...) builds a model.
LoadConstructOk(t) ==
    /\ th[t].pc = "load_construct"
    /\ attempts < MaxAttempts
    /\ attempts' = attempts + 1
    /\ loads' = loads + 1
    /\ th' = [th EXCEPT ![t].pc = "load_store", ![t].handle = <<attempts + 1>>]
    /\ UNCHANGED <<ner_pipeline, loadFailed, parseVars, matchVars, backendVars, jobVars, segVars, appVars>>

\* Line 79 raising (ImportError or any Exception).
LoadConstructRaise(t) ==
    /\ th[t].pc = "load_construct"
    /\ attempts < MaxAttempts
    /\ attempts' = attempts + 1
    /\ th' = [th EXCEPT ![t].pc = "load_except"]
    /\ UNCHANGED <<ner_pipeline, loads, loadFailed, parseVars, matchVars, backendVars, jobVars, segVars, appVars>>

\* Line 79, the assignment to the global.
LoadStore(t) ==
    /\ th[t].pc = "load_store"
    /\ ner_pipeline' = th[t].handle
    /\ th' = [th EXCEPT ![t].pc = "load_return"]
    /\ UNCHANGED <<loads, attempts, loadFailed, parseVars, matchVars, backendVars, jobVars, segVars, appVars>>

\* Lines 81-86: the handlers reset the global to None.
LoadExcept(t) ==
    /\ th[t].pc = "load_except"
    /\ ner_pipeline' = None
    /\ loadFailed' = TRUE
    /\ th' = [th EXCEPT ![t].pc = "load_return"]
    /\ UNCHANGED <<loads, attempts, parseVars, matchVars, backendVars, jobVars, segVars, appVars>>

\* Line 87: return ner_pipeline.
LoadReturn(t) ==
    /\ th[t].pc = "load_return"
    /\ th' = [th EXCEPT ![t].pc = "load_done", ![t].ret = ner_pipeline]
    /\ UNCHANGED <<ner_pipeline, loads, attempts, loadFailed, parseVars, matchVars, backendVars, jobVars, segVars, appVars>>

\* A caller enters extract_entities_from_text (line 131); text is TRUE for a
\* non-empty text.
CallExtract(t) ==
    /\ AtRest(t)
    /\ \E text \in BOOLEAN, labels \in LabelSets :
          th' = [th EXCEPT ![t] = [IdleThread EXCEPT !.pc = "ext_check",
                                       !.text = text, !.labels = labels]]
    /\ UNCHANGED <<ner_pipeline, loads, attempts, loadFailed, parseVars, matchVars, backendVars, jobVars, segVars, appVars>>

\* Lines 143-144: if not ner_pipeline or not text: return [].
ExtCheck(t) ==
    /\ th[t].pc = "ext_check"
    /\ IF ner_pipeline = None \/ ~th[t].text
       THEN th' = [th EXCEPT ![t].pc = "ext_done", ![t].avail = (ner_pipeline # None),
                             ![t].ext = Returned(<<>>)]
       ELSE th' = [th EXCEPT ![t].pc = "ext_infer", ![t].avail = TRUE]
    /\ UNCHANGED <<ner_pipeline, loads, attempts, loadFailed, parseVars, matchVars, backendVars, jobVars, segVars, appVars>>

\* Lines 145-151: the inference and the filter, or the except branch.
ExtInfer(t) ==
    /\ th[t].pc = "ext_infer"
    /\ \E outcome \in InferenceOutcomes :
          th' = [th EXCEPT ![t].pc = "ext_done",
                           ![t].avail = (ner_pipeline # None),
                           ![t].ext = extract_entities_infer(ner_pipeline, outcome,
                                                             th[t].labels)]
    /\ UNCHANGED <<ner_pipeline, loads, attempts, loadFailed, parseVars, matchVars, backendVars, jobVars, segVars, appVars>>

LoaderNext ==
    \E t \in Threads :
        \/ CallLoad(t)
        \/ LoadCheck(t)
        \/ LoadConstructOk(t)
        \/ LoadConstructRaise(t)
        \/ LoadStore(t)
        \/ LoadExcept(t)
        \/ LoadReturn(t)
        \/ CallExtract(t)
        \/ ExtCheck(t)
        \/ ExtInfer(t)

SpecLoader == LoaderInit /\ [][LoaderNext]_vars

(***************************************************************************)
(* Resume texts, abstracted to what the regular expressions and the NER    *)
(* model find in them. A string field is "" when nothing is found. A block *)
(* is one candidate entry of the education or experience section: its      *)
(* stripped length, the fields the patterns find in it, and whether the    *)
(* NER call on it raises.                                                  *)
(***************************************************************************)
MaxBlocks == 2

Block(n, f1, f2, d, r) == [len |-> n, f1 |-> f1, f2 |-> f2, date |-> d, raises |-> r]

Blocks ==
    { Block(8, "", "", "2020", FALSE),          \* below both thresholds, with a year
      Block(40, "Engineer", "Acme", "2019 - 2021", FALSE),
      Block(12, "", "", "", FALSE),             \* between the thresholds, nothing recognisable
      Block(40, "Analyst", "Initech", "2015", TRUE) }

RECURSIVE SeqsUpTo(_, _)
\* The sequences over S of length at most n.
SeqsUpTo(S, n) ==
    IF n = 0 THEN {<<>>}
    ELSE LET shorter == SeqsUpTo(S, n - 1)
         IN shorter \cup {Append(q, x) : q \in shorter, x \in S}

\* A skills section: absent, present without a known skill, present with some.
SkillSections == {"absent", "plain", "listed"}

\* The education and the experience blocks of one text: MaxBlocks in all.
EntrySections ==
    { s \in SeqsUpTo(Blocks, MaxBlocks) \X SeqsUpTo(Blocks, MaxBlocks) :
        Len(s[1]) + Len(s[2]) <= MaxBlocks }

NonEmptyTexts ==
    { [empty |-> FALSE, name |-> n, email |-> e, phone |-> ph, summary |-> su,
       skillsec |-> sk, edu |-> s[1], exp |-> s[2]] :
        n \in {"", "Jane Doe"}, e \in {"", "jane@doe.io"}, ph \in {"", "555-123-4567"},
        su \in {"", "Seasoned engineer."}, sk \in SkillSections, s \in EntrySections }

EmptyText == [empty |-> TRUE, name |-> "", email |-> "", phone |-> "", summary |-> "",
              skillsec |-> "absent", edu |-> <<>>, exp |-> <<>>]

ResumeTexts == NonEmptyTexts \cup {EmptyText}

\* The outcome of one step: a value, or an exception.
Val(v) == [raises |-> FALSE, val |-> v]
Exc == [raises |-> TRUE, val |-> <<>>]

\* Python's `x or default` on a string.
OrElse(x, default) == IF x = "" THEN default ELSE x

(***************************************************************************)
(* utils/resume_parser.py                                                  *)
(***************************************************************************)
EDU_MIN_LEN == 10
EXP_MIN_LEN == 15

\* _parse_single_education_entry without the length gate of line 192.
parse_single_education_entry_NoGate(b) ==
    IF b.raises THEN [raises |-> TRUE, val |-> <<>>]
    ELSE IF b.f1 # "" \/ b.f2 # "" \/ b.date # ""
         THEN [raises |-> FALSE,
               val |-> <<[degree |-> OrElse(b.f1, "N/A"),
                          institution |-> OrElse(b.f2, "N/A"),
                          date |-> OrElse(b.date, "N/A")]>>]
         ELSE [raises |-> FALSE, val |-> <<>>]

\* _parse_single_education_entry (lines 189-234): the length gate, the NER
\* call of line 194, and an entry only if some field was found.
parse_single_education_entry(b) ==
    IF b.len < EDU_MIN_LEN THEN Val(<<>>)
    ELSE IF b.raises THEN Exc
    ELSE IF b.f1 # "" \/ b.f2 # "" \/ b.date # ""
         THEN Val(<<[degree |-> OrElse(b.f1, "N/A"),
                     institution |-> OrElse(b.f2, "N/A"),
                     date |-> OrElse(b.date, "N/A")]>>)
         ELSE Val(<<>>)

\* _parse_single_experience_entry (lines 258-318): after the length gate,
\* line 267 reads JOB_DATE_PATTERN, a name the module never defines:
\* NameError for every block that passes the gate.
parse_single_experience_entry(b) ==
    IF b.len < EXP_MIN_LEN THEN Val(<<>>)
    ELSE Exc

RECURSIVE parse_education_OneTry(_)
\* parse_education with one try around the whole loop: the first exception
\* ends it.
parse_education_OneTry(blocks) ==
    IF blocks = <<>> THEN <<>>
    ELSE LET o == parse_single_education_entry(Head(blocks))
         IN IF o.raises THEN <<>> ELSE o.val \o parse_education_OneTry(Tail(blocks))

RECURSIVE parse_education(_)
\* parse_education (lines 236-255) on the blocks of the section: each block
\* in its own try/except, entries appended in order.
parse_education(blocks) ==
    IF blocks = <<>> THEN <<>>
    ELSE LET o == parse_single_education_entry(Head(blocks))
         IN (IF o.raises THEN <<>> ELSE o.val) \o parse_education(Tail(blocks))

RECURSIVE parse_experience(_)
\* parse_experience (lines 320-341), likewise.
parse_experience(blocks) ==
    IF blocks = <<>> THEN <<>>
    ELSE LET o == parse_single_experience_entry(Head(blocks))
         IN (IF o.raises THEN <<>> ELSE o.val) \o parse_experience(Tail(blocks))

\* The assignments of lines 364-371, in order.
UtilsSteps == <<"name", "email", "phone", "skills", "summary", "education", "experience">>

\* What the right-hand side of each assignment evaluates to. parse_skills
\* (lines 103-162) reads `text` at line 143, which is neither a parameter
\* nor a global of the module: it raises NameError on every call.
UtilsStep(step, t, fault) ==
    IF fault = step THEN Exc
    ELSE CASE step = "name" -> Val(OrElse(t.name, "N/A"))
           [] step = "email" -> Val(OrElse(t.email, "N/A"))
           [] step = "phone" -> Val(OrElse(t.phone, "N/A"))
           [] step = "skills" -> Exc
           [] step = "summary" -> Val(OrElse(t.summary, "N/A"))
           [] step = "education" -> Val(parse_education(t.edu))
           [] step = "experience" -> Val(parse_experience(t.exp))

\* Lines 357-361.
UtilsDefaults == [name |-> "N/A", email |-> "N/A", phone |-> "N/A", skills |-> <<>>,
                  summary |-> "N/A", education |-> <<>>, experience |-> <<>>]

RECURSIVE RunUtilsSteps(_, _, _, _)
\* The try block of lines 363-371: the assignments run in order and the
\* first exception leaves the remaining keys as they were.
RunUtilsSteps(steps, rec, t, fault) ==
    IF steps = <<>> THEN rec
    ELSE LET o == UtilsStep(Head(steps), t, fault)
         IN IF o.raises THEN rec
            ELSE RunUtilsSteps(Tail(steps), [rec EXCEPT ![Head(steps)] = o.val], t, fault)

\* Lines 382-384: empty lists are replaced by placeholders. (The except
\* clause of lines 373-378 only re-types keys of the wrong type; every key
\* holds a value of its type at that point.)
UtilsPlaceholders(rec) ==
    [rec EXCEPT
        !.skills = IF rec.skills = <<>> THEN <<"N/A">> ELSE rec.skills,
        !.education = IF rec.education = <<>>
                      THEN <<[degree |-> "N/A", institution |-> "N/A", date |-> "N/A"]>>
                      ELSE rec.education,
        !.experience = IF rec.experience = <<>>
                       THEN <<[job_title |-> "N/A", company |-> "N/A",
                               date_range |-> "N/A", description |-> "N/A"]>>
                       ELSE rec.experience]

Ok(rec) == [kind |-> "ok", rec |-> rec]
Unhandled == [kind |-> "exc"]
Pending == [kind |-> "pending"]

\* parse_resume_text (lines 344-386). Line 348 returns
\* RB_FIELDS_DEFINITIONS_DEFAULT.copy(), a name the module never defines:
\* NameError for an empty text. Line 350, nlp(text), is outside the try.
parse_resume_text(t, fault) ==
    IF t.empty THEN Unhandled
    ELSE IF fault = "nlp" THEN Unhandled
    ELSE Ok(UtilsPlaceholders(RunUtilsSteps(UtilsSteps, UtilsDefaults, t, fault)))

(***************************************************************************)
(* slm_module/parser.py: parse_resume_text_with_slm                        *)
(***************************************************************************)
\* Python None in a string-valued field.
NoneStr == "None"

\* initialize_parsed_data (lines 90-100): a fresh copy of EXPECTED_FIELDS.
initialize_parsed_data ==
    [name |-> NoneStr,
     contact_info |-> [email |-> NoneStr, phone |-> NoneStr,
                       linkedin |-> NoneStr, github |-> NoneStr],
     summary |-> NoneStr, skills |-> <<>>, education |-> <<>>, experience |-> <<>>]

\* load_slm_model (lines 75-87) run by a single caller: the handle after the
\* call, given whether a construction would succeed.
load_slm_model(pipe, constructOk, next) ==
    IF pipe = None THEN (IF constructOk THEN <<next>> ELSE None) ELSE pipe

\* The skill strings of the texts, in the order Python sorts them.
SkillOrder == <<"Kafka", "Python", "SQL">>

\* Line 285: sorted(list(set(extracted_skills))).
sorted_skills(found) == SelectSeq(SkillOrder, LAMBDA s : s \in found)

\* Lines 256-287: the skills of the skills section, from the NER entities
\* (extract_entities_from_text) and the keyword scan.
SlmSkills(t, pipe, fault) ==
    CASE t.skillsec = "absent" -> <<"Skills section not found.">>
      [] t.skillsec = "plain" ->
            <<"Skills not specifically itemized or section not found.">>
      [] t.skillsec = "listed" ->
            LET ner == extract_entities_infer(pipe,
                          [raises |-> fault = "skills_ner",
                           entities |-> <<Entity("Kafka", "MISC")>>],
                          {"MISC", "ORG"}).val
            IN sorted_skills({ner[i] : i \in 1..Len(ner)} \cup {"Python", "SQL"})

RECURSIVE SlmEducationEntries(_)
\* Lines 298-354 over the blocks: the length gate, then pipeline_instance
\* (line 314, outside any try), then the entry is appended.
SlmEducationEntries(blocks) ==
    IF blocks = <<>> THEN Val(<<>>)
    ELSE LET b == Head(blocks)
             rest == SlmEducationEntries(Tail(blocks))
         IN IF b.len < EDU_MIN_LEN THEN rest
            ELSE IF b.raises \/ rest.raises THEN Exc
            ELSE Val(<<[institution |-> OrElse(b.f2, "N/A"),
                        degree |-> OrElse(b.f1, "N/A"),
                        dates |-> OrElse(b.date, "N/A"),
                        details |-> "rest"]>> \o rest.val)

RECURSIVE SlmExperienceEntries(_)
\* Lines 370-419 over the blocks (pipeline_instance at line 390).
SlmExperienceEntries(blocks) ==
    IF blocks = <<>> THEN Val(<<>>)
    ELSE LET b == Head(blocks)
             rest == SlmExperienceEntries(Tail(blocks))
         IN IF b.len < EXP_MIN_LEN THEN rest
            ELSE IF b.raises \/ rest.raises THEN Exc
            ELSE Val(<<[company |-> OrElse(b.f2, "N/A"),
                        job_title |-> OrElse(b.f1, "N/A"),
                        dates |-> OrElse(b.date, "N/A"),
                        description |-> "rest"]>> \o rest.val)

SlmNoEducation(msg) ==
    <<[details |-> msg, institution |-> "N/A", degree |-> "N/A", dates |-> "N/A"]>>

SlmNoExperience(msg) ==
    <<[description |-> msg, company |-> "N/A", job_title |-> "N/A", dates |-> "N/A"]>>

\* Lines 289-359 and 361-424: the entries of a section, or its placeholder.
SlmEducation(t) ==
    IF t.edu = <<>> THEN Val(SlmNoEducation("Education section not found."))
    ELSE LET e == SlmEducationEntries(t.edu)
         IN IF e.raises THEN Exc
            ELSE IF e.val = <<>>
                 THEN Val(SlmNoEducation("No specific education entries parsed from section."))
                 ELSE e

SlmExperience(t) ==
    IF t.exp = <<>> THEN Val(SlmNoExperience("Experience section not found."))
    ELSE LET e == SlmExperienceEntries(t.exp)
         IN IF e.raises THEN Exc
            ELSE IF e.val = <<>>
                 THEN Val(SlmNoExperience("No specific experience entries parsed."))
                 ELSE e

\* Lines 223-226: with no pipeline the parser writes an error into "name"
\* and returns at once.
SlmModelGate(pipe) == pipe = None

\* parse_resume_text_with_slm (lines 204-426); pipe is what load_slm_model
\* returned at line 222. The inputs hold no linkedin or github URL.
parse_resume_text_with_slm(t, pipe, fault) ==
    IF t.empty THEN Ok(initialize_parsed_data)
    ELSE IF SlmModelGate(pipe)
         THEN Ok([initialize_parsed_data EXCEPT !.name = "ERROR: SLM Model Not Loaded"])
    ELSE IF fault = "contact" THEN Unhandled
    ELSE LET edu == SlmEducation(t)
             exp == SlmExperience(t)
         IN IF edu.raises \/ exp.raises THEN Unhandled
            ELSE Ok([name |-> IF fault = "name_ner" \/ pipe = None
                              THEN "Error extracting name"
                              ELSE OrElse(t.name, NoneStr),
                     contact_info |-> [email |-> OrElse(t.email, NoneStr),
                                       phone |-> OrElse(t.phone, NoneStr),
                                       linkedin |-> NoneStr, github |-> NoneStr],
                     summary |-> OrElse(t.summary,
                                   "Summary section not found or not clearly demarcated."),
                     skills |-> SlmSkills(t, pipe, fault),
                     education |-> edu.val,
                     experience |-> exp.val])

(***************************************************************************)
(* The parser calls: one call per behaviour.                               *)
(***************************************************************************)
UtilsFaults == {"none", "nlp", "name", "email", "phone", "summary", "education", "experience"}
SlmFaults == {"none", "contact", "name_ner", "skills_ner"}

\* How a call is made: the parser, the step that raises, the handle before
\* the call and whether a construction would succeed.
CallModes ==
    { [parser |-> "utils", fault |-> f, pipe |-> None, constructOk |-> TRUE] :
        f \in UtilsFaults }
    \cup
    { [parser |-> f, fault |-> "none", pipe |-> None, constructOk |-> TRUE] :
        f \in {"parse_education", "parse_experience"} }
    \cup
    { [parser |-> "slm", fault |-> f, pipe |-> pp, constructOk |-> c] :
        f \in SlmFaults, pp \in {None, <<1>>}, c \in BOOLEAN }

ParseInit ==
    /\ \E t \in ResumeTexts, c \in CallModes :
          /\ p_in = [parser |-> c.parser, text |-> t, fault |-> c.fault,
                     constructOk |-> c.constructOk]
          /\ ner_pipeline = c.pipe
          /\ loads = Len(c.pipe)
          /\ attempts = Len(c.pipe)
    /\ p_out = Pending
    /\ loadFailed = FALSE
    /\ th = [t \in Threads |-> IdleThread]
    /\ m_in = None /\ m_out = None
    /\ last_analyzed_resume_slm = None /\ last_job_description_text = None
    /\ b_last = NoRequest
    /\ j_in = None /\ j_out = None /\ s_in = None /\ s_out = None
    /\ rb_step_index = 0
    /\ rb_fields = RB_FIELDS_DEFINITIONS
    /\ rb_click = "none"
    /\ JOB_DESCRIPTIONS = [i \in JobIds |-> None]
    /\ jd_issued = 0
    /\ r_last = NoRequest
    /\ current_resume_data = <<get_new_resume_data>>
    /\ job_description_text = <<>>
    /\ job_analysis_results = None
    /\ ja_last = NoRequest
    /\ d_in = None
    /\ d_out = None

\* utils.resume_parser.parse_resume_text(text)
RunParseUtils ==
    /\ p_in.parser = "utils"
    /\ p_out = Pending
    /\ p_out' = parse_resume_text(p_in.text, p_in.fault)
    /\ UNCHANGED <<p_in, loaderVars, matchVars, backendVars, jobVars, segVars, appVars>>

\* slm_module.parser.parse_resume_text_with_slm(text); line 222 loads the
\* model when the text is not empty.
RunParseSlm ==
    /\ p_in.parser = "slm"
    /\ p_out = Pending
    /\ LET loading == ~p_in.text.empty /\ ner_pipeline = None
           pipe == IF p_in.text.empty THEN ner_pipeline
                   ELSE load_slm_model(ner_pipeline, p_in.constructOk, attempts + 1)
       IN /\ p_out' = parse_resume_text_with_slm(p_in.text, pipe, p_in.fault)
          /\ ner_pipeline' = pipe
          /\ attempts' = IF loading THEN attempts + 1 ELSE attempts
          /\ loads' = IF loading /\ p_in.constructOk THEN loads + 1 ELSE loads
          /\ loadFailed' = (loadFailed \/ (loading /\ ~p_in.constructOk))
    /\ UNCHANGED <<p_in, th, matchVars, backendVars, jobVars, segVars, appVars>>

\* The list a section parser returned.
Entries(q) == [kind |-> "entries", entries |-> q]

\* utils.resume_parser.parse_education on a text with these education blocks
RunParseEducation ==
    /\ p_in.parser = "parse_education"
    /\ p_out = Pending
    /\ p_out' = Entries(parse_education(p_in.text.edu))
    /\ UNCHANGED <<p_in, loaderVars, matchVars, backendVars, jobVars, segVars, appVars>>

\* utils.resume_parser.parse_experience
RunParseExperience ==
    /\ p_in.parser = "parse_experience"
    /\ p_out = Pending
    /\ p_out' = Entries(parse_experience(p_in.text.exp))
    /\ UNCHANGED <<p_in, loaderVars, matchVars, backendVars, jobVars, segVars, appVars>>

ParseNext == RunParseUtils \/ RunParseSlm \/ RunParseEducation \/ RunParseExperience

SpecParse == ParseInit /\ [][ParseNext]_vars

(***************************************************************************)
(* Skill matching. A Python string is the sequence of its characters.      *)
(***************************************************************************)
MaxResume == 2
MaxJobWords == 2

UpperCase == <<"A", "B", "C", "D", "E", "F", "G", "H", "I", "J", "K", "L", "M",
               "N", "O", "P", "Q", "R", "S", "T", "U", "V", "W", "X", "Y", "Z">>
LowerCase == <<"a", "b", "c", "d", "e", "f", "g", "h", "i", "j", "k", "l", "m",
               "n", "o", "p", "q", "r", "s", "t", "u", "v", "w", "x", "y", "z">>

\* The characters of the inputs, in code-point order.
CodePoints == <<" ", "-", ".", "/", "0", "1", "2", "3", "4", "5", "6", "7", "8", "9">>
              \o UpperCase \o LowerCase

Ord(c) == CHOOSE i \in 1..Len(CodePoints) : CodePoints[i] = c

\* str.lower() on one character and on a string.
LowerChar(c) ==
    IF \E i \in 1..Len(UpperCase) : UpperCase[i] = c
    THEN LowerCase[CHOOSE i \in 1..Len(UpperCase) : UpperCase[i] = c]
    ELSE c

Lower(s) == [i \in 1..Len(s) |-> LowerChar(s[i])]

\* str.strip(): the string without its leading and trailing blanks.
RECURSIVE Strip(_)
Strip(s) ==
    IF s = <<>> THEN s
    ELSE IF Head(s) = " " THEN Strip(Tail(s))
    ELSE IF s[Len(s)] = " " THEN Strip(SubSeq(s, 1, Len(s) - 1))
    ELSE s

\* Python's `a in b` on strings: a occurs in b as a substring.
Contains(b, a) ==
    \E i \in 1..(Len(b) - Len(a) + 1) : SubSeq(b, i, i + Len(a) - 1) = a

\* Python's `a < b` on strings.
RECURSIVE Less(_, _)
Less(a, b) ==
    IF b = <<>> THEN FALSE
    ELSE IF a = <<>> THEN TRUE
    ELSE IF Head(a) = Head(b) THEN Less(Tail(a), Tail(b))
    ELSE Ord(Head(a)) < Ord(Head(b))

\* sorted(S)[:n] as a set: the n smallest strings of S.
FirstSorted(S, n) ==
    IF Cardinality(S) <= n THEN S
    ELSE {x \in S : Cardinality({y \in S : Less(y, x)}) < n}

\* The elements of a list, as a set.
Range(q) == {q[i] : i \in 1..Len(q)}

\* A score as the fraction num / den of a percentage.
Score(n, d) == [num |-> n, den |-> d]

\* round(n / d, 0) for n, d > 0 (no tie occurs for the d of the inputs).
RoundDiv(n, d) == (2 * n + d) \div (2 * d)

N_A == <<"N", "/", "A">>

(***************************************************************************)
(* core_logic/job_analyzer.py                                              *)
(***************************************************************************)
min_keyword_length == 3
top_n == 50
MissingLimit == 15

\* The stop words of lines 161-169.
stop_words ==
    { <<"a","n","d">>, <<"t","h","e">>, <<"i","s">>, <<"i","n">>, <<"i","t">>, <<"t","o">>,
      <<"a">>, <<"o","f">>, <<"f","o","r">>, <<"o","n">>, <<"w","i","t","h">>, <<"a","s">>,
      <<"a","t">>, <<"b","y">>, <<"a","n">>, <<"o","r">>, <<"i","f">>, <<"a","r","e">>,
      <<"h","a","s">>, <<"h","a","d">>, <<"w","a","s">>, <<"w","e","r","e">>, <<"w","i","l","l">>,
      <<"b","e">>, <<"t","h","i","s">>, <<"t","h","a","t">>, <<"m","y">>, <<"y","o","u","r">>,
      <<"o","u","r">>, <<"w","e">>, <<"u","s">>, <<"m","e">>, <<"h","e">>, <<"s","h","e">>,
      <<"t","h","e","y">>, <<"t","h","e","m">>, <<"j","u","s","t">>, <<"s","o">>,
      <<"t","h","a","n">>, <<"t","h","e","n">>, <<"n","o","t">>, <<"a","l","l">>, <<"a","n","y">>,
      <<"s","o","m","e">>, <<"s","u","c","h">>, <<"n","o">>, <<"n","o","r">>, <<"c","a","n">>,
      <<"d","o">>, <<"g","e","t">>, <<"g","o">>, <<"u","p">>, <<"o","u","t">>,
      <<"a","b","o","u","t">>, <<"w","h","o">>, <<"w","h","a","t">>, <<"w","h","e","n">>,
      <<"w","h","e","r","e">>, <<"w","h","y">>, <<"h","o","w">>, <<"j","o","b">>,
      <<"r","o","l","e">>, <<"c","o","m","p","a","n","y">>,
      <<"e","x","p","e","r","i","e","n","c","e">>, <<"s","k","i","l","l">>,
      <<"s","k","i","l","l","s">>, <<"w","o","r","k">>, <<"t","e","a","m">>,
      <<"p","o","s","i","t","i","o","n">>, <<"c","a","n","d","i","d","a","t","e">>,
      <<"d","e","s","c","r","i","p","t","i","o","n">>,
      <<"r","e","s","p","o","n","s","i","b","i","l","i","t","i","e","s">>,
      <<"r","e","q","u","i","r","e","m","e","n","t","s">>, <<"p","r","e","f","e","r","r","e","d">>,
      <<"q","u","a","l","i","f","i","c","a","t","i","o","n">>,
      <<"q","u","a","l","i","f","i","c","a","t","i","o","n","s">>, <<"e","t","c">>,
      <<"e",".","g">>, <<"i",".","e">>, <<"b","r">>, <<"p">>, <<"l","i">>, <<"d","i","v">>,
      <<"s","p","a","n">>, <<"u","l">>, <<"o","l">>, <<"s","t","r","o","n","g">>, <<"e","m">> }

\* Line 156: the tokens of text.lower(); the text is its words, separated
\* by blanks.
Tokens(words) == [i \in 1..Len(words) |-> Lower(words[i])]

\* Line 172: the words long enough that are no stop words.
KeywordList(words) ==
    SelectSeq(Tokens(words), LAMBDA w : Len(w) >= min_keyword_length /\ w \notin stop_words)

\* Counter(keywords): occurrences, and position of the first one.
CountOf(w, q) == Cardinality({i \in 1..Len(q) : q[i] = w})
FirstIndex(w, q) == CHOOSE i \in 1..Len(q) : q[i] = w /\ \A j \in 1..(i - 1) : q[j] # w

\* Counter.most_common: a comes before b.
MoreCommon(a, b, q) ==
    \/ CountOf(a, q) > CountOf(b, q)
    \/ CountOf(a, q) = CountOf(b, q) /\ FirstIndex(a, q) < FirstIndex(b, q)

\* extract_keywords_from_text (lines 124-178), as the set line 221 makes of
\* its result.
extract_keywords_from_text(words) ==
    LET q == KeywordList(words)
        all == Range(q)
    IN IF Cardinality(all) <= top_n THEN all
       ELSE {k \in all : Cardinality({j \in all : MoreCommon(j, k, q)}) < top_n}

\* Line 231: the lower-cased resume skills, without the empty and blank ones.
resume_skills_lower(skills) ==
    {Lower(skills[i]) : i \in {j \in 1..Len(skills) : Strip(skills[j]) # <<>>}}

\* Line 236: r is a job keyword or a substring of one.
CoreMatches(r, jd) == r \in jd \/ \E k \in jd : Contains(k, r)

\* Line 238: the first resume skill that lower-cases to r.
original_skill(skills, r) ==
    skills[CHOOSE i \in 1..Len(skills) :
              /\ Lower(skills[i]) = r
              /\ \A j \in 1..(i - 1) : Lower(skills[j]) # r]

\* Line 267, counting the job keywords only.
total_unique_terms_JobOnly(rl, jd) == Cardinality(jd)

\* Line 267, with the sum of the sizes in place of the size of the union.
total_unique_terms_Sum(rl, jd) == Cardinality(rl) + Cardinality(jd)

\* Line 267: total_unique_terms.
total_unique_terms(rl, jd) == Cardinality(rl \cup jd)

MatchResult(e, shown, job, matching, missing, score) ==
    [engine |-> e, shown |-> shown, job |-> job, matching |-> matching,
     missing |-> missing, score |-> score]

\* compare_resume_to_job_description (lines 181-280) on {"skills": skills}
\* and the job text. The score is in percent, rounded to two decimals.
compare_resume_to_job_description(skills, words) ==
    IF words = <<>>
    THEN MatchResult("core", TRUE, {}, {}, {}, Score(0, 100))
    ELSE LET jd == extract_keywords_from_text(words)
             rl == resume_skills_lower(skills)
             matching == {original_skill(skills, r) : r \in {x \in rl : CoreMatches(x, jd)}}
             missing == {k \in jd : k \notin rl /\ ~\E r \in rl : Contains(k, r)}
             total == total_unique_terms(rl, jd)
         IN MatchResult("core", TRUE, jd, matching, FirstSorted(missing, MissingLimit),
                        IF total > 0
                        THEN Score(RoundDiv(10000 * Cardinality(matching), total), 100)
                        ELSE Score(0, 100))

(***************************************************************************)
(* pages/02_Job_Analyzer.py: _display_resume_match_analysis                *)
(***************************************************************************)
\* Lines 144 and 146: the lower-cased skills that are neither empty nor "N/A".
PageSkillSet(skills) ==
    {Lower(skills[i]) : i \in {j \in 1..Len(skills) : skills[j] # <<>> /\ skills[j] # N_A}}

\* The comparison of the page with every resume skill listed as additional.
display_resume_match_analysis_AllResume(skills, job_skills_list) ==
    LET resume_skills == PageSkillSet(skills)
        job_skills == PageSkillSet(job_skills_list)
        matching == resume_skills \cap job_skills
    IN IF skills = <<>> \/ skills = <<N_A>>
       THEN MatchResult("page", FALSE, job_skills, {}, {}, Score(0, 1))
                @@ [additional |-> {}]
       ELSE IF job_skills = {}
       THEN MatchResult("page", FALSE, job_skills, {}, {}, Score(0, 1))
                @@ [additional |-> {}]
       ELSE MatchResult("page", TRUE, job_skills, matching, job_skills \ resume_skills,
                        Score(100 * Cardinality(matching), Cardinality(job_skills)))
                @@ [additional |-> resume_skills]

\* Lines 135-155: the alert and the message return without a result;
\* additional_skills is the list of line 154.
display_resume_match_analysis(skills, job_skills_list) ==
    LET resume_skills == PageSkillSet(skills)
        job_skills == PageSkillSet(job_skills_list)
        matching == resume_skills \cap job_skills
    IN IF skills = <<>> \/ skills = <<N_A>>
       THEN MatchResult("page", FALSE, job_skills, {}, {}, Score(0, 1))
                @@ [additional |-> {}]
       ELSE IF job_skills = {}
       THEN MatchResult("page", FALSE, job_skills, {}, {}, Score(0, 1))
                @@ [additional |-> {}]
       ELSE MatchResult("page", TRUE, job_skills, matching, job_skills \ resume_skills,
                        Score(100 * Cardinality(matching), Cardinality(job_skills)))
                @@ [additional |-> resume_skills \ job_skills]

(***************************************************************************)
(* app/routers/resume.py: match_resume_to_job                              *)
(***************************************************************************)
LowerList(q) == [i \in 1..Len(q) |-> Lower(q[i])]

\* Lines 158-185: the lists are compared element by element; the score is
\* 70% of the required share plus 30% of the nice-to-have share, rounded to
\* one decimal.
match_resume_to_job(skills, required, nice) ==
    LET resume_skills == Range(LowerList(skills))
        req == LowerList(required)
        nth == LowerList(nice)
        matched_required == SelectSeq(req, LAMBDA s : s \in resume_skills)
        missing_required == SelectSeq(req, LAMBDA s : s \notin resume_skills)
        matched_nice == SelectSeq(nth, LAMBDA s : s \in resume_skills)
        a == IF req = <<>> THEN 0 ELSE Len(matched_required)
        b == IF req = <<>> THEN 1 ELSE Len(req)
        c == IF nth = <<>> THEN 0 ELSE Len(matched_nice)
        d == IF nth = <<>> THEN 1 ELSE Len(nth)
    IN MatchResult("router", TRUE, Range(req) \cup Range(nth),
                   Range(matched_required) \cup Range(matched_nice),
                   Range(missing_required),
                   Score(RoundDiv(10 * (70 * a * d + 30 * c * b), b * d), 10))

(***************************************************************************)
(* The comparisons: one resume skill list and one job per behaviour.       *)
(***************************************************************************)
\* Resume skills as the parsers and the users write them.
ResumePool ==
    { <<"P", "y", "t", "h", "o", "n">>, <<"P", "Y", "T", "H", "O", "N">>,
      <<"r", "e", "a", "c", "t">>, <<"j", "s">>, <<"S", "Q", "L">>, <<>>, N_A }

\* Words of a job description (skills of a job, for the page and the router).
JobPool ==
    { <<"p", "y", "t", "h", "o", "n">>, <<"R", "e", "a", "c", "t", ".", "j", "s">>,
      <<"s", "q", "l">>, <<"t", "h", "e">>, <<"g", "o">> }

\* A job description with one keyword more than the missing list can hold.
LongJob == [i \in 1..(MissingLimit + 1) |-> <<"k", "w", LowerCase[i]>>]

JobTexts == SeqsUpTo(JobPool, MaxJobWords) \cup {LongJob}

NiceLists == { <<>>, <<<<"s", "q", "l">>>> }

MatchInit ==
    /\ \E skills \in SeqsUpTo(ResumePool, MaxResume), job \in JobTexts :
          m_in = [skills |-> skills, job |-> job]
    /\ m_out = Pending
    /\ ner_pipeline = None
    /\ loads = 0
    /\ attempts = 0
    /\ loadFailed = FALSE
    /\ th = [t \in Threads |-> IdleThread]
    /\ p_in = None /\ p_out = None
    /\ last_analyzed_resume_slm = None /\ last_job_description_text = None
    /\ b_last = NoRequest
    /\ j_in = None /\ j_out = None /\ s_in = None /\ s_out = None
    /\ rb_step_index = 0
    /\ rb_fields = RB_FIELDS_DEFINITIONS
    /\ rb_click = "none"
    /\ JOB_DESCRIPTIONS = [i \in JobIds |-> None]
    /\ jd_issued = 0
    /\ r_last = NoRequest
    /\ current_resume_data = <<get_new_resume_data>>
    /\ job_description_text = <<>>
    /\ job_analysis_results = None
    /\ ja_last = NoRequest
    /\ d_in = None
    /\ d_out = None

\* core_logic.job_analyzer.compare_resume_to_job_description
RunCore ==
    /\ m_out = Pending
    /\ m_out' = compare_resume_to_job_description(m_in.skills, m_in.job)
    /\ UNCHANGED <<m_in, loaderVars, parseVars, backendVars, jobVars, segVars, appVars>>

\* The Job Analyzer page, with the job's skills as analyze_job_text lists them.
RunPage ==
    /\ m_out = Pending
    /\ m_out' = display_resume_match_analysis(m_in.skills, m_in.job)
    /\ UNCHANGED <<m_in, loaderVars, parseVars, backendVars, jobVars, segVars, appVars>>

\* The router, with the job's words as its required skills.
RunRouter ==
    /\ m_out = Pending
    /\ \E nice \in NiceLists :
          m_out' = match_resume_to_job(m_in.skills, m_in.job, nice)
    /\ UNCHANGED <<m_in, loaderVars, parseVars, backendVars, jobVars, segVars, appVars>>

MatchNext == RunCore \/ RunPage \/ RunRouter

SpecMatch == MatchInit /\ [][MatchNext]_vars

(***************************************************************************)
(* backend/main.py: the stored values and the endpoints that use them.     *)
(* The endpoints are coroutines that touch the globals after their last    *)
(* await, so each request is one step.                                     *)
(***************************************************************************)
\* A text: its words, and whether blanks surround them.
Text(ws, words) == [ws |-> ws, words |-> words]

\* Python's truth value of a text, and str.strip().
Truthy(t) == t.ws \/ t.words # <<>>
StripText(t) == Text(FALSE, t.words)

BlankText == Text(TRUE, <<>>)
JobTextA == Text(FALSE, <<<<"p", "y", "t", "h", "o", "n">>, <<"s", "q", "l">>>>)
JobTextB == Text(TRUE, <<<<"R", "e", "a", "c", "t", ".", "j", "s">>>>)

\* A value sent as resume_data: a dict (possibly empty) or something else.
ResumeData(dict, empty, name, skills) ==
    [dict |-> dict, empty |-> empty, name |-> name, skills |-> skills]

ResumeA == ResumeData(TRUE, FALSE, "Jane", <<<<"P", "y", "t", "h", "o", "n">>, <<"S", "Q", "L">>>>)
ResumeB == ResumeData(TRUE, FALSE, "Raj", <<<<"r", "e", "a", "c", "t">>>>)
NotADict == ResumeData(FALSE, FALSE, "", <<>>)
EmptyDict == ResumeData(TRUE, TRUE, "", <<>>)

\* The payloads of POST /job/compare-resume: each key absent (None) or set.
PayloadJobs == {None, <<BlankText>>, <<JobTextA>>, <<JobTextB>>}
PayloadResumes == {None, <<EmptyDict>>, <<NotADict>>, <<ResumeA>>, <<ResumeB>>}

\* An uploaded file: has a name, has content, text can be extracted from it,
\* the parser raises on it, and what the parser returns.
UploadFile(named, content, text, raises, parsed) ==
    [named |-> named, content |-> content, text |-> text, raises |-> raises,
     parsed |-> parsed]

UploadFiles ==
    { UploadFile(FALSE, TRUE, TRUE, FALSE, ResumeA),
      UploadFile(TRUE, FALSE, TRUE, FALSE, ResumeA),
      UploadFile(TRUE, TRUE, FALSE, FALSE, ResumeA),
      UploadFile(TRUE, TRUE, TRUE, TRUE, ResumeA),
      UploadFile(TRUE, TRUE, TRUE, FALSE, ResumeA),
      UploadFile(TRUE, TRUE, TRUE, FALSE, ResumeB) }

\* A URL: blank or not, and what scrape_job_description_from_url does on it.
JobUrl(blank, outcome, text) == [blank |-> blank, outcome |-> outcome, text |-> text]

JobUrls ==
    { JobUrl(TRUE, "none", BlankText), JobUrl(FALSE, "none", BlankText),
      JobUrl(FALSE, "raise", BlankText), JobUrl(FALSE, "text", JobTextA) }

\* The texts sent to POST /job/analyze-text.
SubmittedTexts == {Text(FALSE, <<>>), BlankText, JobTextA, JobTextB}

\* A response: the status and the JSON body.
Response(status, body) == [status |-> status, body |-> body]
HttpError(status) == Response(status, [detail |-> "error"])

\* A handled request with its response.
Handled(kind, input, resp) == [kind |-> kind, input |-> input, resp |-> resp]

\* Lines 304-313 with the two branches exchanged: the stored text first.
CompareJob_StoredFirst(pj, sj) ==
    IF sj # None /\ Truthy(sj[1]) THEN sj
    ELSE IF pj # None /\ Truthy(pj[1])
    THEN (IF StripText(pj[1]).words = <<>> THEN None ELSE pj)
    ELSE None

\* Lines 304-313: the job text the comparison uses, <<text>>, or None when
\* the request is answered 400: the payload's text if it is truthy (and
\* then it must not be blank), else the stored one.
CompareJob(pj, sj) ==
    IF pj # None /\ Truthy(pj[1])
    THEN (IF StripText(pj[1]).words = <<>> THEN None ELSE pj)
    ELSE IF sj # None /\ Truthy(sj[1]) THEN sj ELSE None

\* The resume_data of the payload is truthy.
PayloadResumeGiven(pr) == pr # None /\ ~(pr[1].dict /\ pr[1].empty)

\* Lines 315-325 without the elif branch: the payload's resume data only.
CompareResume_PayloadOnly(pr, sr) ==
    IF PayloadResumeGiven(pr)
    THEN (IF ~pr[1].dict THEN None ELSE pr)
    ELSE None

\* Lines 315-325: likewise for the resume data.
CompareResume(pr, sr) ==
    IF PayloadResumeGiven(pr)
    THEN (IF ~pr[1].dict THEN None ELSE pr)
    ELSE IF sr # None THEN sr ELSE None

\* core_logic/job_analyzer.py lines 225-231 with the skills lower-cased in
\* the caller's list.
DataAfterCompare_InPlace(r) == [r EXCEPT !.skills = LowerList(r.skills)]

\* The dict handed to compare_resume_to_job_description, after the call:
\* lines 225-272 only read it (get, iteration) and build new collections.
DataAfterCompare(r) == r

\* compare_resume_with_job_endpoint (lines 250-337): the response.
compare_resume_with_job_endpoint(pj, pr, sr, sj) ==
    LET j == CompareJob(pj, sj)
        r == CompareResume(pr, sr)
    IN IF j = None THEN HttpError(400)
       ELSE IF r = None THEN HttpError(400)
       ELSE Response(200, [match |->
                compare_resume_to_job_description(r[1].skills, j[1].words)])

\* analyze_resume_file (lines 67-145): the response, given the handle that
\* load_slm_model (line 122) leaves.
analyze_resume_file(file, pipe) ==
    IF ~file.named THEN HttpError(400)
    ELSE IF ~file.content THEN HttpError(400)
    ELSE IF ~file.text THEN HttpError(422)
    ELSE IF pipe = None THEN HttpError(503)
    ELSE IF file.raises THEN HttpError(500)
    ELSE Response(200, [resume |-> file.parsed])

\* scrape_job_url_endpoint (lines 150-202): the response.
scrape_job_url_endpoint(url) ==
    IF url.blank THEN HttpError(400)
    ELSE IF url.outcome = "raise" THEN HttpError(500)
    ELSE IF url.outcome = "none" \/ ~Truthy(url.text) THEN HttpError(422)
    ELSE Response(200, [scraped_text |-> url.text])

\* analyze_job_text_endpoint (lines 204-247): the response.
analyze_job_text_endpoint(text) ==
    IF ~Truthy(text) \/ StripText(text).words = <<>> THEN HttpError(400)
    ELSE Response(200, [text_snippet |-> StripText(text)])

BackendInit ==
    /\ last_analyzed_resume_slm = None
    /\ last_job_description_text = None
    /\ b_last = NoRequest
    /\ ner_pipeline = None
    /\ loads = 0
    /\ attempts = 0
    /\ loadFailed = FALSE
    /\ th = [t \in Threads |-> IdleThread]
    /\ p_in = None /\ p_out = None
    /\ m_in = None /\ m_out = None
    /\ j_in = None /\ j_out = None /\ s_in = None /\ s_out = None
    /\ rb_step_index = 0
    /\ rb_fields = RB_FIELDS_DEFINITIONS
    /\ rb_click = "none"
    /\ JOB_DESCRIPTIONS = [i \in JobIds |-> None]
    /\ jd_issued = 0
    /\ r_last = NoRequest
    /\ current_resume_data = <<get_new_resume_data>>
    /\ job_description_text = <<>>
    /\ job_analysis_results = None
    /\ ja_last = NoRequest
    /\ d_in = None
    /\ d_out = None

\* POST /resume/analyze. Line 122 loads the model if it is not loaded yet.
AnalyzeResume ==
    \E file \in UploadFiles, constructOk \in BOOLEAN :
        LET reaches == file.named /\ file.content /\ file.text
            loading == reaches /\ ner_pipeline = None
            pipe == IF reaches
                    THEN load_slm_model(ner_pipeline, constructOk, attempts + 1)
                    ELSE ner_pipeline
            resp == analyze_resume_file(file, pipe)
        IN /\ loading => attempts < MaxAttempts
           /\ ner_pipeline' = pipe
           /\ attempts' = IF loading THEN attempts + 1 ELSE attempts
           /\ loads' = IF loading /\ constructOk THEN loads + 1 ELSE loads
           /\ loadFailed' = (loadFailed \/ (loading /\ ~constructOk))
           /\ last_analyzed_resume_slm' =
                 IF resp.status = 200 THEN <<file.parsed>> ELSE last_analyzed_resume_slm
           /\ b_last' = Handled("analyze", file, resp)
           /\ UNCHANGED <<last_job_description_text, th, parseVars, matchVars, jobVars, segVars, appVars>>

\* POST /job/scrape-url with the assignment of line 194 moved before the
\* test of line 190.
ScrapeJobUrl_StoreBeforeTest ==
    \E url \in JobUrls :
        LET resp == scrape_job_url_endpoint(url)
        IN /\ last_job_description_text' =
                 IF ~url.blank /\ url.outcome # "raise"
                 THEN <<url.text>> ELSE last_job_description_text
           /\ b_last' = Handled("scrape", url, resp)
           /\ UNCHANGED <<last_analyzed_resume_slm, loaderVars, parseVars, matchVars, jobVars, segVars, appVars>>

\* POST /job/scrape-url
ScrapeJobUrl ==
    \E url \in JobUrls :
        LET resp == scrape_job_url_endpoint(url)
        IN /\ last_job_description_text' =
                 IF resp.status = 200 THEN <<url.text>> ELSE last_job_description_text
           /\ b_last' = Handled("scrape", url, resp)
           /\ UNCHANGED <<last_analyzed_resume_slm, loaderVars, parseVars, matchVars, jobVars, segVars, appVars>>

\* POST /job/analyze-text
AnalyzeJobText ==
    \E text \in SubmittedTexts :
        LET resp == analyze_job_text_endpoint(text)
        IN /\ last_job_description_text' =
                 IF resp.status = 200 THEN <<StripText(text)>> ELSE last_job_description_text
           /\ b_last' = Handled("analyze_text", text, resp)
           /\ UNCHANGED <<last_analyzed_resume_slm, loaderVars, parseVars, matchVars, jobVars, segVars, appVars>>

\* POST /job/compare-resume. When the payload gives no resume data, the
\* stored dict itself is handed to the comparison.
CompareResumeWithJob ==
    \E pj \in PayloadJobs, pr \in PayloadResumes :
        LET resp == compare_resume_with_job_endpoint(pj, pr, last_analyzed_resume_slm,
                                                     last_job_description_text)
        IN /\ last_analyzed_resume_slm' =
                 IF resp.status = 200 /\ ~PayloadResumeGiven(pr)
                 THEN <<DataAfterCompare(last_analyzed_resume_slm[1])>>
                 ELSE last_analyzed_resume_slm
           /\ b_last' = Handled("compare", [job |-> pj, resume |-> pr], resp)
           /\ UNCHANGED <<last_job_description_text, loaderVars, parseVars, matchVars, jobVars, segVars, appVars>>

BackendNext == AnalyzeResume \/ ScrapeJobUrl \/ AnalyzeJobText \/ CompareResumeWithJob

SpecBackend == BackendInit /\ [][BackendNext]_vars

(***************************************************************************)
(* utils/job_analyzer.py: years of experience and seniority of a job text. *)
(* A text is a sequence of tokens: words, numbers, "+", "-" and runs of    *)
(* blanks (" " and "  "); two words are always separated by another token. *)
(* The texts are in lower case (the patterns ignore case and the matched   *)
(* phrase is lowered at line 95).                                          *)
(***************************************************************************)
MaxKeywords == 2

Blanks == {" ", "  "}
BlankLen(tok) == IF tok = "  " THEN 2 ELSE 1

\* The token at position i, or a mark for the end of the text.
Tok(t, i) == IF i \in DOMAIN t THEN t[i] ELSE "$"

\* [2-9]|[1-9]\d
RangeNumbers == {ToString(n) : n \in 2..99}
RangeNumber(tok) == tok \in RangeNumbers
\* [1-9]\d* (numbers of one or two digits)
PlainNumbers == {ToString(n) : n \in 1..99}
PlainNumber(tok) == tok \in PlainNumbers
\* \d{1,2}
ShortNumbers == {ToString(n) : n \in 0..99}
ShortNumber(tok) == tok \in ShortNumbers
\* a|one|two|...|ten and five|six|...|twelve
SpelledLow == {"a", "one", "two", "three", "four", "five", "six", "seven", "eight",
               "nine", "ten"}
SpelledHigh == {"five", "six", "seven", "eight", "nine", "ten", "eleven", "twelve"}

\* \s* at position i: the position after it.
SkipBlanks(t, i) == IF Tok(t, i) \in Blanks THEN i + 1 ELSE i

\* An optional word followed by \s+ at position i: the position after it.
OptionalWord(t, i, w) ==
    IF Tok(t, i) = w /\ Tok(t, i + 1) \in Blanks THEN i + 2 ELSE i

\* The end of EXPERIENCE_YEARS_PATTERN (line 9), from \s+years? on, at
\* position i; `need` is the number of blanks the run at i must hold.
\* The position after "experience", or 0 when the text does not match.
YearsTail(t, i, need) ==
    IF ~(Tok(t, i) \in Blanks /\ BlankLen(Tok(t, i)) >= need) THEN 0
    ELSE IF Tok(t, i + 1) \notin {"years", "year"} THEN 0
    ELSE LET of == IF Tok(t, i + 2) \in Blanks /\ Tok(t, i + 3) = "of"
                   THEN i + 4 ELSE i + 2
         IN IF Tok(t, of) \notin Blanks THEN 0
            ELSE LET e == OptionalWord(t, OptionalWord(t, OptionalWord(t, of + 1,
                                 "relevant"), "work"), "professional")
                 IN IF Tok(t, e) = "experience" THEN e + 1 ELSE 0

NoHead == [end |-> 0, need |-> 1]

\* The alternatives of the pattern's first group at position i, in the
\* order the pattern lists them: where each one ends (0: no match) and how
\* many blanks \s+years then needs. [1-9]\d*\+?\b can only be followed by
\* a blank when it took no "+". The spelled-out alternative ends with its
\* own \s+, so that it shares the run of blanks before "years" unless it
\* took "to <number>".
YearsHeads(t, i) ==
    LET sep == SkipBlanks(t, i + 1)
        hi == SkipBlanks(t, sep + 1)
    IN << IF RangeNumber(Tok(t, i)) /\ Tok(t, sep) \in {"to", "-"}
                /\ RangeNumber(Tok(t, hi))
          THEN [end |-> hi + 1, need |-> 1] ELSE NoHead,
          IF RangeNumber(Tok(t, i)) /\ Tok(t, sep) = "+"
          THEN [end |-> sep + 1, need |-> 1] ELSE NoHead,
          IF PlainNumber(Tok(t, i))
          THEN [end |-> i + 1, need |-> 1] ELSE NoHead,
          IF Tok(t, i) = "at least" /\ Tok(t, i + 1) \in Blanks
                /\ ShortNumber(Tok(t, i + 2))
          THEN [end |-> i + 3, need |-> 1] ELSE NoHead,
          IF Tok(t, i) = "minimum" /\ Tok(t, i + 1) \in Blanks
                /\ ShortNumber(Tok(t, i + 2))
          THEN [end |-> i + 3, need |-> 1] ELSE NoHead,
          IF Tok(t, i) \in SpelledLow /\ Tok(t, i + 1) \in Blanks
                /\ Tok(t, i + 2) = "to" /\ Tok(t, i + 3) \in Blanks
                /\ Tok(t, i + 4) \in SpelledHigh
          THEN [end |-> i + 5, need |-> 1] ELSE NoHead,
          IF Tok(t, i) \in SpelledLow
          THEN [end |-> i + 1, need |-> 2] ELSE NoHead >>

\* The position after the match of the pattern that starts at i, or 0.
YearsMatchAt(t, i) ==
    LET heads == YearsHeads(t, i)
        ends == [k \in DOMAIN heads |->
                    IF heads[k].end = 0 THEN 0
                    ELSE YearsTail(t, heads[k].end, heads[k].need)]
        hits == {k \in DOMAIN heads : ends[k] # 0}
    IN IF hits = {} THEN 0
       ELSE ends[CHOOSE k \in hits : \A h \in hits : k <= h]

\* EXPERIENCE_YEARS_PATTERN.search(text).group(1): the tokens of the
\* leftmost match, or None.
EXPERIENCE_YEARS_PATTERN(t) ==
    LET starts == {i \in DOMAIN t : YearsMatchAt(t, i) # 0}
    IN IF starts = {} THEN None
       ELSE LET i == CHOOSE k \in starts : \A h \in starts : k <= h
            IN <<SubSeq(t, i, YearsMatchAt(t, i) - 1)>>

RECURSIVE Join(_)
\* The string the tokens spell.
Join(toks) == IF toks = <<>> THEN "" ELSE Head(toks) \o Join(Tail(toks))

\* YEAR_NUMBER_PATTERN.findall (line 13) on the matched phrase
YEAR_NUMBER_PATTERN(phrase) == SelectSeq(phrase, ShortNumber)

\* Lines 96-117: the normal form of the matched phrase. None of the words
\* the pattern can match contains "to", "-" or "+" except these tokens.
years_experience_str(phrase) ==
    LET Has(w) == \E k \in DOMAIN phrase : phrase[k] = w
        numbers == YEAR_NUMBER_PATTERN(phrase)
    IN IF Has("to") \/ Has("-")
       THEN IF Len(numbers) >= 2
            THEN <<numbers[1] \o "-" \o numbers[2] \o " years">>
            ELSE IF numbers # <<>> THEN <<"Up to " \o numbers[1] \o " years">>
            ELSE None
       ELSE IF Has("+")
       THEN IF numbers # <<>> THEN <<numbers[1] \o "+ years">> ELSE None
       ELSE IF Has("at least") \/ Has("minimum")
       THEN IF numbers # <<>> THEN <<numbers[1] \o "+ years">> ELSE None
       ELSE IF numbers # <<>> THEN <<numbers[1] \o " years">>
       ELSE <<Join(phrase) \o " years">>

\* seniority_keywords_map (lines 122-130): the words each level is found by.
seniority_keywords_map ==
    ("Senior" :> {"senior", "sr"})
    @@ ("Lead" :> {"lead", "team lead"})
    @@ ("Junior" :> {"junior", "jr", "entry-level", "graduate"})
    @@ ("Mid-Level" :> {"mid-level", "intermediate"})
    @@ ("Principal" :> {"principal"})
    @@ ("Staff" :> {"staff engineer", "staff software", "staff level"})
    @@ ("Manager" :> {"manager", "managing"})

\* Lines 131-136: the levels one of whose words is in the text.
found_seniorities(t) ==
    {level \in DOMAIN seniority_keywords_map :
        \E k \in DOMAIN t : t[k] \in seniority_keywords_map[level]}

\* The first level found, in the order the map lists them.
seniority_str_MapOrder(found) ==
    LET order == <<"Senior", "Lead", "Junior", "Mid-Level", "Principal", "Staff", "Manager">>
        hits == {k \in DOMAIN order : order[k] \in found}
    IN IF hits = {} THEN None
       ELSE <<order[CHOOSE k \in hits : \A h \in hits : k <= h]>>

\* Lines 139-145: the if / elif chain.
seniority_str(found) ==
    IF "Manager" \in found THEN <<"Manager">>
    ELSE IF "Principal" \in found THEN <<"Principal">>
    ELSE IF "Staff" \in found THEN <<"Staff">>
    ELSE IF "Lead" \in found THEN <<"Lead">>
    ELSE IF "Senior" \in found THEN <<"Senior">>
    ELSE IF "Mid-Level" \in found THEN <<"Mid-Level">>
    ELSE IF "Junior" \in found THEN <<"Junior">>
    ELSE None

\* extract_experience_level (lines 84-147)
extract_experience_level(t) ==
    LET match == EXPERIENCE_YEARS_PATTERN(t)
    IN [years |-> IF match # None THEN years_experience_str(match[1]) ELSE None,
        seniority |-> seniority_str(found_seniorities(t))]

\* analyze_job_text (lines 183-222), the two keys extract_experience_level
\* fills; an empty text returns the defaults at once (lines 193-197).
analyze_job_text(t) ==
    IF t = <<>> THEN [experience_years |-> "N/A", seniority |-> "N/A"]
    ELSE LET r == extract_experience_level(t)
         IN [experience_years |-> IF r.years # None THEN r.years[1] ELSE "N/A",
             seniority |-> IF r.seniority # None THEN r.seniority[1] ELSE "N/A"]

\* The words a job text is made of besides its years-of-experience phrase.
JobWords == {"senior", "sr", "lead", "junior", "mid-level", "principal",
             "staff engineer", "staff", "manager"}

\* A years-of-experience phrase: what precedes "years", the blanks before
\* it, and what follows.
YearsPhrase(kind, a, b, gap, tail) ==
    [kind |-> kind, a |-> a, b |-> b, gap |-> gap, tail |-> tail]

NoPhrase == YearsPhrase("none", "", "", " ", <<>>)

PhraseNumbers == {"1", "5", "12"}

PhraseTails ==
    { <<"years", " ", "of", " ", "experience">>,
      <<"year", " ", "relevant", " ", "work", " ", "experience">>,
      <<"years">> }

YearsPhrases ==
    { YearsPhrase(k, a, "", g, tl) :
        k \in {"single", "plus", "at least", "minimum"}, a \in PhraseNumbers,
        g \in Blanks, tl \in PhraseTails }
    \cup { YearsPhrase(k, a, b, g, tl) :
        k \in {"range", "range to"}, a \in PhraseNumbers, b \in PhraseNumbers,
        g \in Blanks, tl \in PhraseTails }
    \cup { YearsPhrase("spelled", a, "", g, tl) :
        a \in {"a", "five"}, g \in Blanks, tl \in PhraseTails }
    \cup { YearsPhrase("spelled range", "one", "five", g, tl) :
        g \in Blanks, tl \in PhraseTails }
    \cup {NoPhrase}

\* The tokens of a phrase.
PhraseTokens(p) ==
    IF p.kind = "none" THEN <<>>
    ELSE (CASE p.kind = "single" -> <<p.a>>
            [] p.kind = "plus" -> <<p.a, "+">>
            [] p.kind = "at least" -> <<"at least", " ", p.a>>
            [] p.kind = "minimum" -> <<"minimum", " ", p.a>>
            [] p.kind = "range" -> <<p.a, "-", p.b>>
            [] p.kind = "range to" -> <<p.a, " ", "to", " ", p.b>>
            [] p.kind = "spelled" -> <<p.a>>
            [] p.kind = "spelled range" -> <<p.a, " ", "to", " ", p.b>>)
         \o <<p.gap>> \o p.tail

RECURSIVE Spaced(_)
\* The words, each followed by a blank.
Spaced(words) ==
    IF words = <<>> THEN <<>> ELSE <<Head(words), " ">> \o Spaced(Tail(words))

\* The job text with these words and this phrase.
JobText(words, phrase) == Spaced(words) \o PhraseTokens(phrase)

JobInit ==
    /\ \E words \in SeqsUpTo(JobWords, MaxKeywords), phrase \in YearsPhrases :
          j_in = [words |-> words, phrase |-> phrase]
    /\ j_out = Pending
    /\ s_in = None /\ s_out = None
    /\ ner_pipeline = None
    /\ loads = 0
    /\ attempts = 0
    /\ loadFailed = FALSE
    /\ th = [t \in Threads |-> IdleThread]
    /\ p_in = None /\ p_out = None
    /\ m_in = None /\ m_out = None
    /\ last_analyzed_resume_slm = None /\ last_job_description_text = None
    /\ b_last = NoRequest
    /\ rb_step_index = 0
    /\ rb_fields = RB_FIELDS_DEFINITIONS
    /\ rb_click = "none"
    /\ JOB_DESCRIPTIONS = [i \in JobIds |-> None]
    /\ jd_issued = 0
    /\ r_last = NoRequest
    /\ current_resume_data = <<get_new_resume_data>>
    /\ job_description_text = <<>>
    /\ job_analysis_results = None
    /\ ja_last = NoRequest
    /\ d_in = None
    /\ d_out = None

\* utils.job_analyzer.analyze_job_text
AnalyzeJob ==
    /\ j_out = Pending
    /\ j_out' = analyze_job_text(JobText(j_in.words, j_in.phrase))
    /\ UNCHANGED <<j_in, segVars, loaderVars, parseVars, matchVars, backendVars, appVars>>

JobNext == AnalyzeJob

SpecJob == JobInit /\ [][JobNext]_vars

(***************************************************************************)
(* Section extraction: get_section_text of slm_module/parser.py and        *)
(* _extract_section_text of utils/resume_parser.py. A text is a sequence   *)
(* of lines, joined by newlines, with or without a newline after the last  *)
(* one; a line is a header, a blank line ("") or a line of content. The    *)
(* patterns ignore case: the lines are written in lower case.              *)
(***************************************************************************)
MaxLines == 4

\* slm_module/parser.py lines 42-47
SECTION_KEYWORDS ==
    [summary |-> {"summary", "objective", "profile", "about me", "professional profile",
                  "personal statement"},
     skills |-> {"skills", "technical skills", "technologies", "proficiencies",
                 "core competencies", "technical proficiencies"},
     education |-> {"education", "academic background", "qualifications",
                    "academic training"},
     experience |-> {"experience", "work experience", "professional experience",
                     "employment history", "career history"}]

\* slm_module/parser.py lines 48-54
ALL_SECTION_HEADERS ==
    UNION {SECTION_KEYWORDS[k] : k \in DOMAIN SECTION_KEYWORDS}
    \cup {"contact", "personal details", "contact information", "projects", "awards",
          "publications", "references", "achievements", "certifications", "languages"}

\* utils/resume_parser.py lines 13-18 and 28-31: the header words of each
\* pattern.
EDUCATION_SECTION_PATTERN == {"education", "academic background", "qualifications"}
EXPERIENCE_SECTION_PATTERN ==
    {"experience", "work experience", "professional experience", "employment history"}
SECTION_ENDERS_PATTERN ==
    {"education", "experience", "skills", "projects", "awards", "publications",
     "references", "technical skills", "work experience", "professional experience",
     "employment history", "academic background", "qualifications", "interests",
     "languages", "certifications"}

\* The lines a text is made of.
TextLines == {"skills", "education", "experience", "summary", "",
              "python, sql", "b.sc. mit"}

SectionText(lines, newline) == [lines |-> lines, newline |-> newline]

SectionTexts == {SectionText(l, n) : l \in SeqsUpTo(TextLines, MaxLines), n \in BOOLEAN}

\* Line i is followed by a newline.
HasNewline(t, i) == i < Len(t.lines) \/ t.newline

Least(S) == CHOOSE k \in S : \A h \in S : k <= h

\* The first line after line i that is not blank, or 0.
NextText(t, i) ==
    LET S == {k \in (i + 1)..Len(t.lines) : t.lines[k] # ""}
    IN IF S = {} THEN 0 ELSE Least(S)

\* Where the capture that starts at line j ends: at the first newline that
\* is followed, after blanks only, by a line holding one of the enders and
\* a newline; else at the end of the text.
SectionEnd(t, j, enders) ==
    LET S == {k \in j..Len(t.lines) :
                LET h == NextText(t, k)
                IN h # 0 /\ t.lines[h] \in enders /\ HasNewline(t, h)}
    IN IF S = {} THEN Len(t.lines) ELSE Least(S)

RECURSIVE StripLines(_)
\* str.strip() of a capture whose first line is not blank
StripLines(q) ==
    IF q = <<>> THEN <<>>
    ELSE IF q[Len(q)] = "" THEN StripLines(SubSeq(q, 1, Len(q) - 1))
    ELSE q

\* What is captured after the header at line i: the header takes the
\* blanks that follow it ([:\s-]*\n and \s*[:\n] are greedy), the capture
\* starts at the next line that is not blank and is stripped.
Captured(t, i, enders) ==
    LET j == NextText(t, i)
    IN IF j = 0 THEN <<>>
       ELSE StripLines(SubSeq(t.lines, j, SectionEnd(t, j, enders)))

\* get_section_text (slm_module/parser.py lines 102-129): the header is
\* the first line that holds a keyword and is followed by a newline.
get_section_text(t, section_keywords) ==
    LET H == {i \in DOMAIN t.lines :
                t.lines[i] \in section_keywords /\ HasNewline(t, i)}
    IN IF H = {} THEN None ELSE <<Captured(t, Least(H), ALL_SECTION_HEADERS)>>

\* _extract_section_text (utils/resume_parser.py lines 164-176) followed by
\* the removal of the header and the strip of lines 243-244 / 326-327; the
\* pattern starts with \n: a header on the first line is not found.
extract_section_text(t, pattern) ==
    LET H == {i \in DOMAIN t.lines :
                i >= 2 /\ t.lines[i] \in pattern /\ HasNewline(t, i)}
    IN IF H = {} THEN None ELSE <<Captured(t, Least(H), SECTION_ENDERS_PATTERN)>>

SegInit ==
    /\ s_in \in SectionTexts
    /\ s_out = [slm |-> Pending, utils |-> Pending]
    /\ j_in = None /\ j_out = None
    /\ ner_pipeline = None
    /\ loads = 0
    /\ attempts = 0
    /\ loadFailed = FALSE
    /\ th = [t \in Threads |-> IdleThread]
    /\ p_in = None /\ p_out = None
    /\ m_in = None /\ m_out = None
    /\ last_analyzed_resume_slm = None /\ last_job_description_text = None
    /\ b_last = NoRequest
    /\ rb_step_index = 0
    /\ rb_fields = RB_FIELDS_DEFINITIONS
    /\ rb_click = "none"
    /\ JOB_DESCRIPTIONS = [i \in JobIds |-> None]
    /\ jd_issued = 0
    /\ r_last = NoRequest
    /\ current_resume_data = <<get_new_resume_data>>
    /\ job_description_text = <<>>
    /\ job_analysis_results = None
    /\ ja_last = NoRequest
    /\ d_in = None
    /\ d_out = None

\* The calls of get_section_text in parse_resume_text_with_slm (lines 249,
\* 256, 290, 362)
RunGetSectionText ==
    /\ s_out.slm = Pending
    /\ s_out' = [s_out EXCEPT !.slm =
                    [section \in DOMAIN SECTION_KEYWORDS |->
                        get_section_text(s_in, SECTION_KEYWORDS[section])]]
    /\ UNCHANGED <<s_in, jobVars, loaderVars, parseVars, matchVars, backendVars, appVars>>

\* The calls of _extract_section_text in parse_education and
\* parse_experience (lines 239, 323)
RunExtractSectionText ==
    /\ s_out.utils = Pending
    /\ s_out' = [s_out EXCEPT !.utils =
                    [education |-> extract_section_text(s_in, EDUCATION_SECTION_PATTERN),
                     experience |-> extract_section_text(s_in, EXPERIENCE_SECTION_PATTERN)]]
    /\ UNCHANGED <<s_in, jobVars, loaderVars, parseVars, matchVars, backendVars, appVars>>

SegNext == RunGetSectionText \/ RunExtractSectionText

SpecSeg == SegInit /\ [][SegNext]_vars

(***************************************************************************)
(* pages/03_Resume_Builder.py: the steps of the Resume Builder page.  One  *)
(* action is one press or one edit followed by the rerun of the script.    *)
(***************************************************************************)

\* Entries a list form may hold (the Add button is not offered beyond it).
MaxEntries == 1

\* Lines 236-245: the eight steps of steps_definition.
total_steps == 8

\* Lines 276-283: the form each step displays, by the fields it writes.
StepFields(i) ==
    CASE i = 0 -> {"rb_name", "rb_email", "rb_phone", "rb_linkedin", "rb_portfolio"}
      [] i = 1 -> {"rb_summary"}
      [] i = 2 -> {"rb_experience"}
      [] i = 3 -> {"rb_education"}
      [] i = 4 -> {"rb_skills"}
      [] i = 5 -> {"rb_projects"}
      [] i = 6 -> {"rb_awards"}
      [] OTHER -> {}

TextFields == {"rb_name", "rb_email", "rb_phone", "rb_linkedin", "rb_portfolio", "rb_summary"}
ListFields == {"rb_experience", "rb_education", "rb_projects", "rb_awards"}

\* What the user may type into a text input.
TypedTexts == {"", "x"}

\* Line 103: the entry the Add button appends (every field blank).
BlankItem == [blank |-> TRUE]

Max2(a, b) == IF a >= b THEN a ELSE b
Min2(a, b) == IF a <= b THEN a ELSE b

BuilderPageInit ==
    /\ rb_step_index = 0
    /\ rb_fields = RB_FIELDS_DEFINITIONS
    /\ rb_click = "none"
    /\ ner_pipeline = None
    /\ loads = 0
    /\ attempts = 0
    /\ loadFailed = FALSE
    /\ th = [t \in Threads |-> IdleThread]
    /\ p_in = None /\ p_out = None
    /\ m_in = None /\ m_out = None
    /\ last_analyzed_resume_slm = None /\ last_job_description_text = None
    /\ b_last = NoRequest
    /\ j_in = None /\ j_out = None /\ s_in = None /\ s_out = None
    /\ JOB_DESCRIPTIONS = [i \in JobIds |-> None]
    /\ jd_issued = 0
    /\ r_last = NoRequest
    /\ current_resume_data = <<get_new_resume_data>>
    /\ job_description_text = <<>>
    /\ job_analysis_results = None
    /\ ja_last = NoRequest
    /\ d_in = None
    /\ d_out = None

\* Lines 59-64, 70-73: a text input of the displayed form is typed into.
TypeText ==
    \E f \in StepFields(rb_step_index) \cap TextFields, v \in TypedTexts :
        /\ rb_fields' = [rb_fields EXCEPT ![f] = v]
        /\ rb_click' = "edit"
        /\ UNCHANGED <<rb_step_index, routerVars, builderVars, jobPageVars, datesVars, loaderVars, parseVars, matchVars, backendVars,
                       jobVars, segVars>>

\* Lines 102-104: the Add button of a list form.
AddEntry ==
    \E f \in StepFields(rb_step_index) \cap ListFields :
        /\ Len(rb_fields[f]) < MaxEntries
        /\ rb_fields' = [rb_fields EXCEPT ![f] = Append(@, BlankItem)]
        /\ rb_click' = "edit"
        /\ UNCHANGED <<rb_step_index, routerVars, builderVars, jobPageVars, datesVars, loaderVars, parseVars, matchVars, backendVars,
                       jobVars, segVars>>

\* Lines 97-99: the Remove button of entry i of a list form.
RemoveEntry ==
    \E f \in StepFields(rb_step_index) \cap ListFields :
        \E i \in 1..Len(rb_fields[f]) :
            /\ rb_fields' = [rb_fields EXCEPT ![f] =
                                SubSeq(@, 1, i - 1) \o SubSeq(@, i + 1, Len(@))]
            /\ rb_click' = "edit"
            /\ UNCHANGED <<rb_step_index, routerVars, builderVars, jobPageVars, datesVars, loaderVars, parseVars, matchVars, backendVars,
                           jobVars, segVars>>

\* Lines 115-120: the skills text area, rewritten as a sorted list.
TypeSkills ==
    \E v \in {<<>>, <<"python">>} :
        /\ "rb_skills" \in StepFields(rb_step_index)
        /\ rb_fields' = [rb_fields EXCEPT !.rb_skills = v]
        /\ rb_click' = "edit"
        /\ UNCHANGED <<rb_step_index, routerVars, builderVars, jobPageVars, datesVars, loaderVars, parseVars, matchVars, backendVars,
                       jobVars, segVars>>

\* Lines 210-213 with the step index moved without the test of line 210.
PreviousStep_NoTest ==
    /\ rb_step_index' = rb_step_index - 1
    /\ rb_click' = "previous"
    /\ UNCHANGED <<rb_fields, routerVars, builderVars, jobPageVars, datesVars, loaderVars, parseVars, matchVars, backendVars,
                   jobVars, segVars>>

\* Lines 210-213: the Previous Step button, offered above the first step.
PreviousStep ==
    /\ rb_step_index > 0
    /\ rb_step_index' = Max2(0, rb_step_index - 1)
    /\ rb_click' = "previous"
    /\ UNCHANGED <<rb_fields, routerVars, builderVars, jobPageVars, datesVars, loaderVars, parseVars, matchVars, backendVars,
                   jobVars, segVars>>

\* Lines 214-217: the Next Step button, offered below the last step.
NextStep ==
    /\ rb_step_index < total_steps - 1
    /\ rb_step_index' = Min2(total_steps - 1, rb_step_index + 1)
    /\ rb_click' = "next"
    /\ UNCHANGED <<rb_fields, routerVars, builderVars, jobPageVars, datesVars, loaderVars, parseVars, matchVars, backendVars,
                   jobVars, segVars>>

\* Lines 232-235 and _reset_rb_state (lines 35-40): Start Over.
StartOver ==
    /\ rb_fields' = RB_FIELDS_DEFINITIONS
    /\ rb_step_index' = 0
    /\ rb_click' = "reset"
    /\ UNCHANGED <<routerVars, builderVars, jobPageVars, datesVars, loaderVars, parseVars, matchVars, backendVars, jobVars, segVars>>

BuilderPageNext ==
    \/ TypeText
    \/ AddEntry
    \/ RemoveEntry
    \/ TypeSkills
    \/ PreviousStep
    \/ NextStep
    \/ StartOver

SpecBuilderPage == BuilderPageInit /\ [][BuilderPageNext]_vars

(***************************************************************************)
(* app/routers/resume.py: the in-memory store of job descriptions.         *)
(***************************************************************************)

\* An id no add_job_description has returned.
UnknownId == 0

\* Ids a client may send.
RequestIds == JobIds \cup {UnknownId}

\* The texts of the job descriptions clients post.
JobPostTexts == {"backend", "frontend"}

\* app/services/job_parser.py:230-240  the parsed job of each posted text.
parse_job_description(text) ==
    IF text = "backend"
    THEN [job_title |-> "Backend Engineer",
          required_skills |-> << <<"P", "y", "t", "h", "o", "n">>, <<"S", "Q", "L">> >>,
          nice_to_have |-> << <<"j", "s">> >>,
          description |-> text]
    ELSE [job_title |-> "Frontend Engineer",
          required_skills |-> << <<"j", "s">> >>,
          nice_to_have |-> <<>>,
          description |-> text]

\* Lines 87-91: the stored entry (the time stamp is left out).
StoredJob(text) == [original |-> [text |-> text, url |-> None],
                    parsed |-> parse_job_description(text)]

\* Line 105, 113, 131: job_id in JOB_DESCRIPTIONS.
InStore(JD, job_id) == job_id \in DOMAIN JD /\ JD[job_id] # None

\* The parsed resumes of a match request: a dict with a list of skill
\* strings, or a dict whose "skills" is not a list of strings.
MatchResumes ==
    { [ok |-> TRUE, skills |-> << <<"P", "Y", "T", "H", "O", "N">> >>],
      [ok |-> TRUE, skills |-> <<>>],
      [ok |-> FALSE, skills |-> <<>>] }

\* Lines 156-207, called from the endpoint: the match entry of one job, or
\* the exception the list comprehension of line 158 raises.
JobMatch(resume, job_data) ==
    [job_title |-> job_data.job_title,
     match |-> match_resume_to_job(resume.skills, job_data.required_skills,
                                   job_data.nice_to_have)]

\* Lines 148-153: one entry per stored job in the order of insertion, then
\* a stable sort by match_score, descending.
RECURSIVE InsertByScore(_, _)
InsertByScore(sorted, e) ==
    IF sorted = <<>> THEN <<e>>
    ELSE IF sorted[Len(sorted)].match.score.num >= e.match.score.num
    THEN Append(sorted, e)
    ELSE Append(InsertByScore(SubSeq(sorted, 1, Len(sorted) - 1), e), sorted[Len(sorted)])

RECURSIVE MatchAll(_, _, _)
MatchAll(JD, resume, n) ==
    IF n = 0 THEN <<>>
    ELSE IF InStore(JD, n)
    THEN InsertByScore(MatchAll(JD, resume, n - 1),
                       [id |-> n] @@ JobMatch(resume, JD[n][1].parsed))
    ELSE MatchAll(JD, resume, n - 1)

RouterRequest(kind, input, resp) == [kind |-> kind, input |-> input, resp |-> resp]

RouterInit ==
    /\ JOB_DESCRIPTIONS = [i \in JobIds |-> None]
    /\ jd_issued = 0
    /\ r_last = NoRequest
    /\ rb_step_index = 0
    /\ rb_fields = RB_FIELDS_DEFINITIONS
    /\ rb_click = "none"
    /\ ner_pipeline = None
    /\ loads = 0
    /\ attempts = 0
    /\ loadFailed = FALSE
    /\ th = [t \in Threads |-> IdleThread]
    /\ p_in = None /\ p_out = None
    /\ m_in = None /\ m_out = None
    /\ last_analyzed_resume_slm = None /\ last_job_description_text = None
    /\ b_last = NoRequest
    /\ j_in = None /\ j_out = None /\ s_in = None /\ s_out = None
    /\ current_resume_data = <<get_new_resume_data>>
    /\ job_description_text = <<>>
    /\ job_analysis_results = None
    /\ ja_last = NoRequest
    /\ d_in = None
    /\ d_out = None

\* POST /resume/job-description (lines 78-101).
add_job_description ==
    \E text \in JobPostTexts :
        /\ jd_issued < MaxJobs
        /\ LET job_id == jd_issued + 1
               parsed_job == parse_job_description(text)
           IN /\ JOB_DESCRIPTIONS' = [JOB_DESCRIPTIONS EXCEPT ![job_id] = <<StoredJob(text)>>]
              /\ jd_issued' = job_id
              /\ r_last' = RouterRequest("add", text,
                              Response(200, [id |-> job_id,
                                             job_title |-> parsed_job.job_title]))
        /\ UNCHANGED <<builderPageVars, builderVars, jobPageVars, datesVars, loaderVars, parseVars,
                       matchVars, backendVars, jobVars, segVars>>

\* GET /resume/job-description/{job_id} (lines 103-112).
get_job_description ==
    \E job_id \in RequestIds :
        /\ r_last' = RouterRequest("get", job_id,
                        IF ~InStore(JOB_DESCRIPTIONS, job_id) THEN HttpError(404)
                        ELSE Response(200, [id |-> job_id,
                                            parsed |-> JOB_DESCRIPTIONS[job_id][1].parsed]))
        /\ UNCHANGED <<JOB_DESCRIPTIONS, jd_issued, builderPageVars,
                       builderVars, jobPageVars, datesVars, loaderVars, parseVars, matchVars, backendVars, jobVars, segVars>>

\* The DELETE endpoint with the entry removed before the test of line 116.
delete_job_description_DeleteFirst ==
    \E job_id \in RequestIds :
        /\ JOB_DESCRIPTIONS' = [i \in JobIds |->
                                   IF i = job_id THEN None ELSE JOB_DESCRIPTIONS[i]]
        /\ r_last' = RouterRequest("delete", job_id,
                        IF ~InStore(JOB_DESCRIPTIONS', job_id) THEN HttpError(404)
                        ELSE Response(200, [message |-> "Job description deleted"]))
        /\ UNCHANGED <<jd_issued, builderPageVars,
                       builderVars, jobPageVars, datesVars, loaderVars, parseVars, matchVars, backendVars, jobVars, segVars>>

\* DELETE /resume/job-description/{job_id} (lines 114-121).
delete_job_description ==
    \E job_id \in RequestIds :
        /\ IF ~InStore(JOB_DESCRIPTIONS, job_id)
           THEN /\ r_last' = RouterRequest("delete", job_id, HttpError(404))
                /\ UNCHANGED JOB_DESCRIPTIONS
           ELSE /\ JOB_DESCRIPTIONS' = [JOB_DESCRIPTIONS EXCEPT ![job_id] = None]
                /\ r_last' = RouterRequest("delete", job_id,
                                Response(200, [message |-> "Job description deleted"]))
        /\ UNCHANGED <<jd_issued, builderPageVars,
                       builderVars, jobPageVars, datesVars, loaderVars, parseVars, matchVars, backendVars, jobVars, segVars>>

\* POST /resume/match-jobs (lines 123-154).  job_description_id and
\* job_description_text are None (or empty, which the tests of lines 130 and
\* 139 treat alike) or given; an exception of match_resume_to_job is
\* answered 500 by the framework.
match_resume_to_jobs ==
    \E resume \in MatchResumes,
       id \in {None} \cup {<<i>> : i \in RequestIds},
       text \in {None} \cup {<<t>> : t \in JobPostTexts} :
        /\ r_last' = RouterRequest("match",
                        [parsed_resume |-> resume, job_description_id |-> id,
                         job_description_text |-> text],
                        IF id # None
                        THEN IF ~InStore(JOB_DESCRIPTIONS, id[1]) THEN HttpError(404)
                             ELSE IF ~resume.ok THEN HttpError(500)
                             ELSE Response(200,
                                    <<JobMatch(resume, JOB_DESCRIPTIONS[id[1]][1].parsed)>>)
                        ELSE IF text # None
                        THEN IF ~resume.ok THEN HttpError(500)
                             ELSE Response(200,
                                    <<JobMatch(resume, parse_job_description(text[1]))>>)
                        ELSE IF ~resume.ok /\ \E i \in JobIds : InStore(JOB_DESCRIPTIONS, i)
                        THEN HttpError(500)
                        ELSE Response(200, MatchAll(JOB_DESCRIPTIONS, resume, MaxJobs)))
        /\ UNCHANGED <<JOB_DESCRIPTIONS, jd_issued, builderPageVars,
                       builderVars, jobPageVars, datesVars, loaderVars, parseVars, matchVars, backendVars, jobVars, segVars>>

RouterNext ==
    \/ add_job_description
    \/ get_job_description
    \/ delete_job_description
    \/ match_resume_to_jobs

SpecRouter == RouterInit /\ [][RouterNext]_vars

(***************************************************************************)
(* backend/main.py: the Resume Builder endpoints.                          *)
(***************************************************************************)

\* The empty JSON object and a JSON value that is not an object.
EmptyObject == [dict |-> TRUE, empty |-> TRUE, name |-> None, skills |-> <<>>]
NotAnObject == [dict |-> FALSE, empty |-> FALSE, name |-> None, skills |-> <<>>]

\* The resumes clients send.
BuilderResumes ==
    { ResumeDict(<<"Jane Doe">>, <<"Python">>),
      ResumeDict(<<"Jane Doe">>, <<"Python", "SQL">>),
      ResumeDict(None, <<"SQL">>),
      ResumeDict(<<"John Roe">>, <<>>),
      DEFAULT_RESUME_STRUCTURE }

\* The bodies of PUT /builder/resume.
PutPayloads == BuilderResumes \cup {EmptyObject, NotAnObject}

\* The bodies of POST /builder/resume/download-pdf: null, {}, or an object
\* whose "resume_data" is absent (<<>>) or some JSON value.
DownloadPayloads ==
    {None} \cup {<<[empty |-> TRUE, resume_data |-> None]>>}
           \cup {<<[empty |-> FALSE, resume_data |-> None]>>}
           \cup {<<[empty |-> FALSE, resume_data |-> <<d>>]>> :
                    d \in BuilderResumes \cup {EmptyObject, NotAnObject}}

\* core_logic/resume_builder.py:77-...  create_resume_pdf_bytes: the bytes
\* of the document of a resume, or None when ReportLab fails.
create_resume_pdf_bytes(resume_data, fails) ==
    IF resume_data.empty \/ fails THEN None ELSE <<[pdf_of |-> resume_data]>>

BuilderInit ==
    /\ current_resume_data = <<get_new_resume_data>>
    /\ b_last = NoRequest
    /\ JOB_DESCRIPTIONS = [i \in JobIds |-> None]
    /\ jd_issued = 0
    /\ r_last = NoRequest
    /\ rb_step_index = 0
    /\ rb_fields = RB_FIELDS_DEFINITIONS
    /\ rb_click = "none"
    /\ ner_pipeline = None
    /\ loads = 0
    /\ attempts = 0
    /\ loadFailed = FALSE
    /\ th = [t \in Threads |-> IdleThread]
    /\ p_in = None /\ p_out = None
    /\ m_in = None /\ m_out = None
    /\ last_analyzed_resume_slm = None /\ last_job_description_text = None
    /\ j_in = None /\ j_out = None /\ s_in = None /\ s_out = None
    /\ job_description_text = <<>>
    /\ job_analysis_results = None
    /\ ja_last = NoRequest
    /\ d_in = None
    /\ d_out = None

\* GET /builder/resume (lines 342-373).
get_resume_builder_data_endpoint ==
    /\ current_resume_data' =
          IF current_resume_data = None THEN <<get_new_resume_data>>
          ELSE current_resume_data
    /\ b_last' = Handled("builder_get", None, Response(200, current_resume_data'[1]))
    /\ UNCHANGED <<storedVars, jobPageVars, datesVars, loaderVars, parseVars, matchVars, jobVars, segVars,
                   routerVars, builderPageVars>>

\* The PUT endpoint with the payload stored before the test of line 412.
update_resume_builder_data_endpoint_StoreFirst ==
    \E new_resume_data \in PutPayloads :
        /\ current_resume_data' =
              IF new_resume_data.dict THEN <<new_resume_data>> ELSE current_resume_data
        /\ b_last' = Handled("builder_put", new_resume_data,
                        IF ~new_resume_data.dict THEN HttpError(422)
                        ELSE IF new_resume_data.empty THEN HttpError(400)
                        ELSE Response(200, [updated_data_preview |->
                                 [name |-> IF new_resume_data.name = None THEN "N/A"
                                           ELSE new_resume_data.name[1]]]))
        /\ UNCHANGED <<storedVars, jobPageVars, datesVars, loaderVars, parseVars, matchVars, jobVars, segVars,
                       routerVars, builderPageVars>>

\* PUT /builder/resume (lines 375-421); a body that is not a JSON object is
\* rejected by the validation of the Dict parameter before the handler runs.
update_resume_builder_data_endpoint ==
    \E new_resume_data \in PutPayloads :
        /\ IF ~new_resume_data.dict
           THEN /\ b_last' = Handled("builder_put", new_resume_data, HttpError(422))
                /\ UNCHANGED current_resume_data
           ELSE IF new_resume_data.empty
           THEN /\ b_last' = Handled("builder_put", new_resume_data, HttpError(400))
                /\ UNCHANGED current_resume_data
           ELSE /\ current_resume_data' = <<new_resume_data>>
                /\ b_last' = Handled("builder_put", new_resume_data,
                                Response(200, [updated_data_preview |->
                                    [name |-> IF new_resume_data.name = None THEN "N/A"
                                              ELSE new_resume_data.name[1]]]))
        /\ UNCHANGED <<storedVars, jobPageVars, datesVars, loaderVars, parseVars, matchVars, jobVars, segVars,
                       routerVars, builderPageVars>>

\* Lines 466-482: the data the PDF is made of, None for the answer 422.
DataForPdf(payload, stored) ==
    IF payload # None /\ ~payload[1].empty /\ payload[1].resume_data # None
           /\ payload[1].resume_data[1].dict
    THEN (IF payload[1].resume_data[1].empty THEN None ELSE payload[1].resume_data)
    ELSE IF stored # None /\ ~stored[1].empty THEN stored
    ELSE <<get_new_resume_data>>

\* POST /builder/resume/download-pdf (lines 423-499).
download_resume_as_pdf_endpoint ==
    \E resume_data_payload \in DownloadPayloads, fails \in BOOLEAN :
        /\ LET data_to_use_for_pdf == DataForPdf(resume_data_payload, current_resume_data)
               pdf_bytes == create_resume_pdf_bytes(data_to_use_for_pdf[1], fails)
           IN b_last' = Handled("builder_pdf", resume_data_payload,
                           IF data_to_use_for_pdf = None THEN HttpError(422)
                           ELSE IF pdf_bytes = None THEN HttpError(500)
                           ELSE Response(200, pdf_bytes[1]))
        /\ UNCHANGED <<current_resume_data, storedVars, jobPageVars, datesVars, loaderVars, parseVars, matchVars,
                       jobVars, segVars, routerVars, builderPageVars>>

BuilderNext ==
    \/ get_resume_builder_data_endpoint
    \/ update_resume_builder_data_endpoint
    \/ download_resume_as_pdf_endpoint

SpecBuilder == BuilderInit /\ [][BuilderNext]_vars

(***************************************************************************)
(* pages/02_Job_Analyzer.py and app.py: the submission of a job posting.   *)
(* Texts are sequences of characters.                                      *)
(***************************************************************************)

\* The job posting URLs the user enters.
JobUrlA ==
    <<
        "h", "t", "t", "p", "s", ":", "/", "/", "j", "o", "b", "s", ".", "e", "x",
        "a", "m", "p", "l", "e", ".", "c", "o", "m", "/", "4", "2" >>
JobUrlB ==
    <<
        "j", "o", "b", "s", ".", "e", "x", "a", "m", "p", "l", "e", ".", "c", "o",
        "m", "/", "4", "3" >>

\* pages/02_Job_Analyzer.py:54  the two prefixes the page tests.
PrefixError ==
    <<
        "E", "r", "r", "o", "r" >>
PrefixCouldNot ==
    <<
        "C", "o", "u", "l", "d", " ", "n", "o", "t" >>

\* app.py:408  the two prefixes app.py tests.
PrefixErrorFetching ==
    <<
        "E", "r", "r", "o", "r", " ", "f", "e", "t", "c", "h", "i", "n", "g", " ",
        "U", "R", "L", ":" >>
PrefixCouldNotExtract ==
    <<
        "C", "o", "u", "l", "d", " ", "n", "o", "t", " ", "a", "u", "t", "o", "m",
        "a", "t", "i", "c", "a", "l", "l", "y", " ", "e", "x", "t", "r", "a", "c", "t" >>

\* utils/scraper.py:52-54  the scheme put before a URL without one.
HttpsScheme ==
    <<
        "h", "t", "t", "p", "s", ":", "/", "/" >>
HttpScheme ==
    <<
        "h", "t", "t", "p", ":", "/", "/" >>

\* utils/scraper.py:70-76, 90, 152-158  the messages the scraper returns.
MsgTimeout ==
    <<
        "E", "r", "r", "o", "r", ":", " ", "T", "i", "m", "e", "o", "u", "t", " ",
        "a", "f", "t", "e", "r", " ", "1", "5", " ", "s", "e", "c", "o", "n", "d",
        "s", " ", "t", "r", "y", "i", "n", "g", " ", "t", "o", " ", "f", "e", "t",
        "c", "h", " ", "U", "R", "L", ":", " " >>
MsgHttp ==
    <<
        "E", "r", "r", "o", "r", ":", " ", "H", "T", "T", "P", " ", "4", "0", "4",
        " ", "w", "h", "i", "l", "e", " ", "f", "e", "t", "c", "h", "i", "n", "g",
        " ", "U", "R", "L", ":", " " >>
MsgConnection ==
    <<
        "E", "r", "r", "o", "r", ":", " ", "C", "o", "n", "n", "e", "c", "t", "i",
        "o", "n", " ", "f", "a", "i", "l", "e", "d", " ", "f", "o", "r", " ", "U",
        "R", "L", ":", " " >>
MsgConnectionTail ==
    <<
        ".", " ", "P", "l", "e", "a", "s", "e", " ", "c", "h", "e", "c", "k", " ",
        "t", "h", "e", " ", "n", "e", "t", "w", "o", "r", "k", " ", "o", "r", " ",
        "h", "o", "s", "t", "n", "a", "m", "e", "." >>
MsgNoContent ==
    <<
        "E", "r", "r", "o", "r", ":", " ", "C", "o", "u", "l", "d", " ", "n", "o",
        "t", " ", "e", "x", "t", "r", "a", "c", "t", " ", "j", "o", "b", " ", "d",
        "e", "s", "c", "r", "i", "p", "t", "i", "o", "n", ".", " ", "N", "o", " ",
        "c", "o", "n", "t", "e", "n", "t", " ", "f", "o", "u", "n", "d", " ", "i",
        "n", " ", "H", "T", "M", "L", " ", "b", "o", "d", "y", "." >>
MsgNoBody ==
    <<
        "E", "r", "r", "o", "r", ":", " ", "C", "o", "u", "l", "d", " ", "n", "o",
        "t", " ", "e", "x", "t", "r", "a", "c", "t", " ", "j", "o", "b", " ", "d",
        "e", "s", "c", "r", "i", "p", "t", "i", "o", "n", ".", " ", "H", "T", "M",
        "L", " ", "s", "t", "r", "u", "c", "t", "u", "r", "e", " ", "m", "i", "g",
        "h", "t", " ", "b", "e", " ", "u", "n", "u", "s", "u", "a", "l", " ", "o",
        "r", " ", "b", "o", "d", "y", " ", "t", "a", "g", " ", "i", "s", " ", "m",
        "i", "s", "s", "i", "n", "g", "." >>
MsgTooShort ==
    <<
        "E", "r", "r", "o", "r", ":", " ", "C", "o", "u", "l", "d", " ", "n", "o",
        "t", " ", "e", "x", "t", "r", "a", "c", "t", " ", "s", "u", "f", "f", "i",
        "c", "i", "e", "n", "t", " ", "j", "o", "b", " ", "d", "e", "s", "c", "r",
        "i", "p", "t", "i", "o", "n", " ", "c", "o", "n", "t", "e", "n", "t", ".",
        " ", "T", "h", "e", " ", "c", "o", "n", "t", "e", "n", "t", " ", "f", "o",
        "u", "n", "d", " ", "w", "a", "s", " ", "t", "o", "o", " ", "s", "h", "o",
        "r", "t", " ", "a", "f", "t", "e", "r", " ", "c", "l", "e", "a", "n", "i",
        "n", "g", ".", " ", "T", "r", "y", " ", "p", "a", "s", "t", "i", "n", "g",
        " ", "t", "h", "e", " ", "t", "e", "x", "t", " ", "d", "i", "r", "e", "c",
        "t", "l", "y", "." >>

\* A posting the scraper extracts (at least 100 characters, line 157).
ScrapedPosting ==
    <<
        "S", "e", "n", "i", "o", "r", " ", "P", "y", "t", "h", "o", "n", " ", "d",
        "e", "v", "e", "l", "o", "p", "e", "r", " ", "w", "a", "n", "t", "e", "d",
        ".", " ", "5", "+", " ", "y", "e", "a", "r", "s", " ", "o", "f", " ", "e",
        "x", "p", "e", "r", "i", "e", "n", "c", "e", " ", "w", "i", "t", "h", " ",
        "S", "Q", "L", " ", "a", "n", "d", " ", "c", "l", "o", "u", "d", " ", "s",
        "e", "r", "v", "i", "c", "e", "s", ";", " ", "r", "e", "m", "o", "t", "e",
        " ", "w", "o", "r", "k", " ", "p", "o", "s", "s", "i", "b", "l", "e", "." >>

\* The texts the user pastes.
PastedA ==
    <<
        "J", "u", "n", "i", "o", "r", " ", "a", "n", "a", "l", "y", "s", "t", ",",
        " ", "S", "Q", "L", " ", "r", "e", "q", "u", "i", "r", "e", "d", "." >>
PastedB ==
    <<
        "E", "r", "r", "o", "r", " ", "b", "u", "d", "g", "e", "t", "s", " ", "a",
        "n", "d", " ", "o", "n", "-", "c", "a", "l", "l", " ", "d", "u", "t", "y",
        " ", "f", "o", "r", " ", "a", " ", "s", "i", "t", "e", " ", "r", "e", "l",
        "i", "a", "b", "i", "l", "i", "t", "y", " ", "e", "n", "g", "i", "n", "e",
        "e", "r", "." >>
PastedC ==
    <<
        "L", "e", "a", "d", " ", "d", "e", "s", "i", "g", "n", "e", "r", "." >>

\* str.startswith(prefix)
StartsWith(s, prefix) ==
    Len(s) >= Len(prefix) /\ SubSeq(s, 1, Len(prefix)) = prefix

\* utils/scraper.py:52-54  the URL that is fetched.
FetchedUrl(url) ==
    IF StartsWith(url, HttpScheme) \/ StartsWith(url, HttpsScheme) THEN url
    ELSE HttpsScheme \o url

\* utils/scraper.py:41-160  what scrape_job_posting(url) may return: one of
\* its error messages or the cleaned text of the posting.
scrape_job_posting(url) ==
    { MsgTimeout \o FetchedUrl(url),
      MsgHttp \o FetchedUrl(url),
      MsgConnection \o FetchedUrl(url) \o MsgConnectionTail,
      MsgNoContent, MsgNoBody, MsgTooShort,
      ScrapedPosting }

\* The two input widgets: "" when left empty.
UrlInputs == {<<>>, JobUrlA, JobUrlB}
TextAreaInputs == {<<>>, PastedA, PastedB, PastedC}

\* utils/job_analyzer.py:183-222  the analysis of a text, kept with the text
\* it was made of.
JobAnalysisOf(text) == [analysis_of |-> text]

Submission(engine, url, pasted, scraped, analysed) ==
    [kind |-> engine, url |-> url, pasted |-> pasted, scraped |-> scraped,
     analysed |-> analysed]

JobPageInit ==
    /\ job_description_text = <<>>
    /\ job_analysis_results = None
    /\ ja_last = NoRequest
    /\ current_resume_data = <<get_new_resume_data>>
    /\ b_last = NoRequest
    /\ JOB_DESCRIPTIONS = [i \in JobIds |-> None]
    /\ jd_issued = 0
    /\ r_last = NoRequest
    /\ rb_step_index = 0
    /\ rb_fields = RB_FIELDS_DEFINITIONS
    /\ rb_click = "none"
    /\ ner_pipeline = None
    /\ loads = 0
    /\ attempts = 0
    /\ loadFailed = FALSE
    /\ th = [t \in Threads |-> IdleThread]
    /\ p_in = None /\ p_out = None
    /\ m_in = None /\ m_out = None
    /\ last_analyzed_resume_slm = None /\ last_job_description_text = None
    /\ j_in = None /\ j_out = None /\ s_in = None /\ s_out = None
    /\ d_in = None
    /\ d_out = None

\* The text a submission goes on with: None when the handler returns early,
\* else <<current_jd_text>>.  isError is the test applied to the scraped
\* text, scraped is None when no URL was entered.
CurrentJdText(url, pasted, scraped, isError, returnsEarly) ==
    IF url # <<>>
    THEN (IF isError THEN << <<>> >> ELSE <<scraped[1]>>)
    ELSE IF pasted # <<>> THEN <<pasted>>
    ELSE IF returnsEarly THEN None ELSE << <<>> >>

\* The session state after the handler: lines 33-34 clear it, line 66 (and
\* app.py:420) stores the text, lines 68-71 analyse a non-empty text.
AfterSubmission(engine, url, pasted, scraped, current) ==
    /\ job_description_text' = IF current = None THEN <<>> ELSE current[1]
    /\ job_analysis_results' =
          IF current = None \/ current[1] = <<>> THEN None
          ELSE <<JobAnalysisOf(current[1])>>
    /\ ja_last' = Submission(engine, url, pasted, scraped,
                     IF current = None \/ current[1] = <<>> THEN None ELSE current)

\* pages/02_Job_Analyzer.py:28-72  _handle_jd_input_and_analysis.
handle_jd_input_and_analysis ==
    \E job_url_input \in UrlInputs, job_text_area_input \in TextAreaInputs :
      \E scraped \in IF job_url_input = <<>> THEN {None}
                     ELSE {<<t>> : t \in scrape_job_posting(job_url_input)} :
        /\ AfterSubmission("page", job_url_input, job_text_area_input, scraped,
              CurrentJdText(job_url_input, job_text_area_input, scraped,
                  scraped # None /\ (StartsWith(scraped[1], PrefixError)
                                       \/ StartsWith(scraped[1], PrefixCouldNot)),
                  TRUE))
        /\ UNCHANGED <<datesVars, loaderVars, parseVars, matchVars, backendVars, jobVars, segVars,
                       routerVars, builderPageVars, builderVars>>

\* app.py:400-425  the Analyze Job Description button.
analyze_jd_button ==
    \E job_url \in UrlInputs, job_text_area \in TextAreaInputs :
      \E scraped \in IF job_url = <<>> THEN {None}
                     ELSE {<<t>> : t \in scrape_job_posting(job_url)} :
        /\ AfterSubmission("app", job_url, job_text_area, scraped,
              CurrentJdText(job_url, job_text_area, scraped,
                  scraped # None /\ (StartsWith(scraped[1], PrefixErrorFetching)
                                       \/ StartsWith(scraped[1], PrefixCouldNotExtract)),
                  FALSE))
        /\ UNCHANGED <<datesVars, loaderVars, parseVars, matchVars, backendVars, jobVars, segVars,
                       routerVars, builderPageVars, builderVars>>

JobPageNext ==
    \/ handle_jd_input_and_analysis
    \/ analyze_jd_button

SpecJobPage == JobPageInit /\ [][JobPageNext]_vars

(***************************************************************************)
(* slm_module/parser.py: the dates of an entry block.  A text is the       *)
(* sequence of its words, which single blanks separate.                    *)
(***************************************************************************)

\* Words of an entry text.
MaxTokens == 5

Months == {"Jan"}
Years == {"2019", "2021"}
Seasons == {"Summer"}
DateTokens == Months \cup Years \cup Seasons \cup {"-", "Present", "Graduated"}

\* len(word)
TokenLen(w) ==
    CASE w = "-" -> 1
      [] w \in Months -> 3
      [] w \in Years -> 4
      [] w = "Summer" -> 6
      [] w = "Present" -> 7
      [] w = "Graduated" -> 9
      [] OTHER -> 0

\* len(" ".join(words))
RECURSIVE CharLen(_)
CharLen(q) ==
    IF q = <<>> THEN 0
    ELSE TokenLen(Head(q)) + (IF Len(q) > 1 THEN 1 ELSE 0) + CharLen(Tail(q))

\* The word at position i, "" beyond the end.
At(t, i) == IF i \in 1..Len(t) THEN t[i] ELSE ""

\* Lines 22-39: DATE_REGEX_PATTERNS in their order.  The number of words
\* pattern k matches from position i on, 0 when it does not match there.
DatePatternCount == 8
PatternMatch(k, t, i) ==
    LET mon(j) == At(t, j) \in Months
        yr(j) == At(t, j) \in Years
        dash(j) == At(t, j) = "-"
    IN CASE k = 1 -> IF mon(i) /\ yr(i + 1) /\ dash(i + 2) /\ mon(i + 3) /\ yr(i + 4)
                     THEN 5 ELSE 0
         [] k = 2 -> IF mon(i) /\ yr(i + 1) /\ dash(i + 2) /\ At(t, i + 3) = "Present"
                     THEN 4 ELSE 0
         [] k = 3 -> IF yr(i) /\ dash(i + 1) /\ yr(i + 2) THEN 3 ELSE 0
         [] k = 4 -> IF yr(i) /\ dash(i + 1) /\ At(t, i + 2) = "Present" THEN 3 ELSE 0
         [] k = 5 -> IF At(t, i) = "Graduated" /\ mon(i + 1) /\ yr(i + 2) THEN 3
                     ELSE IF At(t, i) = "Graduated" /\ yr(i + 1) THEN 2 ELSE 0
         [] k = 6 -> IF mon(i) /\ yr(i + 1) THEN 2 ELSE 0
         [] k = 7 -> IF At(t, i) \in Seasons /\ yr(i + 1) THEN 2 ELSE 0
         [] k = 8 -> IF yr(i) THEN 1 ELSE 0

\* pattern.findall(text): the matches from left to right, without overlap,
\* each with the position of its first word.
RECURSIVE FindAll(_, _, _)
FindAll(k, t, i) ==
    IF i > Len(t) THEN <<>>
    ELSE LET n == PatternMatch(k, t, i)
         IN IF n = 0 THEN FindAll(k, t, i + 1)
            ELSE <<SubSeq(t, i, i + n - 1)>> \o FindAll(k, t, i + n)

\* Lines 168-175: found_dates, as the set line 182 makes of it.
found_dates(t) ==
    UNION { {FindAll(k, t, 1)[j] : j \in 1..Len(FindAll(k, t, 1))} : k \in 1..DatePatternCount }

\* The words of s stand in t from position i on.
StandsAt(t, s, i) == i + Len(s) - 1 <= Len(t) /\ SubSeq(t, i, i + Len(s) - 1) = s

\* text.find(s): the first position at which the words of s stand.
Find(t, s) ==
    CHOOSE i \in 1..Len(t) :
        StandsAt(t, s, i) /\ \A j \in 1..(i - 1) : ~StandsAt(t, s, j)

\* Lines 153-201: None (<<>>) without a match, else <<date>>: the unique
\* matches sorted by first appearance and then, stably, by length: the
\* longest one, and of several longest ones the one that appears first.
extract_dates(t) ==
    LET unique_dates == found_dates(t)
    IN IF unique_dates = {} THEN None
       ELSE <<CHOOSE d \in unique_dates :
                 \A e \in unique_dates :
                    \/ CharLen(d) > CharLen(e)
                    \/ CharLen(d) = CharLen(e) /\ Find(t, d) <= Find(t, e)>>

\* Lines 383-384: the date is cut out (re.sub for the first occurrence,
\* str.replace for the others); "" marks the place of a cut, where two
\* blanks now meet.
RECURSIVE CutDate(_, _)
CutDate(t, d) ==
    IF t = <<>> THEN <<>>
    ELSE IF Len(t) >= Len(d) /\ SubSeq(t, 1, Len(d)) = d
    THEN <<"">> \o CutDate(SubSeq(t, Len(d) + 1, Len(t)), d)
    ELSE <<Head(t)>> \o CutDate(Tail(t), d)

\* str.strip() on the words: the cuts at both ends go.
RECURSIVE StripCuts(_)
StripCuts(t) ==
    IF t = <<>> THEN <<>>
    ELSE IF Head(t) = "" THEN StripCuts(Tail(t))
    ELSE IF t[Len(t)] = "" THEN StripCuts(SubSeq(t, 1, Len(t) - 1))
    ELSE t

\* Lines 375-384 (and 303-311 for education): the dates field of the entry
\* and the text the title, company and description are taken from.
entry_dates(t) ==
    LET extracted_date == extract_dates(t)
    IN IF extracted_date = None THEN [dates |-> <<"N/A">>, rest |-> t]
       ELSE [dates |-> extracted_date[1],
             rest |-> StripCuts(CutDate(t, extracted_date[1]))]

DatesInit ==
    /\ \E t \in SeqsUpTo(DateTokens, MaxTokens) : d_in = t
    /\ d_out = Pending
    /\ job_description_text = <<>>
    /\ job_analysis_results = None
    /\ ja_last = NoRequest
    /\ current_resume_data = <<get_new_resume_data>>
    /\ b_last = NoRequest
    /\ JOB_DESCRIPTIONS = [i \in JobIds |-> None]
    /\ jd_issued = 0
    /\ r_last = NoRequest
    /\ rb_step_index = 0
    /\ rb_fields = RB_FIELDS_DEFINITIONS
    /\ rb_click = "none"
    /\ ner_pipeline = None
    /\ loads = 0
    /\ attempts = 0
    /\ loadFailed = FALSE
    /\ th = [t \in Threads |-> IdleThread]
    /\ p_in = None /\ p_out = None
    /\ m_in = None /\ m_out = None
    /\ last_analyzed_resume_slm = None /\ last_job_description_text = None
    /\ j_in = None /\ j_out = None /\ s_in = None /\ s_out = None

\* One entry block goes through lines 375-384.
RunEntryDates ==
    /\ d_out = Pending
    /\ d_in # <<>>
    /\ d_out' = entry_dates(d_in)
    /\ UNCHANGED <<d_in, loaderVars, parseVars, matchVars, backendVars, jobVars, segVars,
                   routerVars, builderPageVars, builderVars, jobPageVars>>

DatesNext == RunEntryDates

SpecDates == DatesInit /\ [][DatesNext]_vars

(***************************************************************************)
(* Claims.                                                                 *)
(***************************************************************************)

\* C1: however the first callers of load_slm_model interleave, the model
\* is constructed at most once in the whole process.
C1_LoadedAtMostOnce == loads <= 1

\* The call of a top-level parser has finished (returned or raised).
ParseDone == p_out # Pending /\ p_in.parser \in {"utils", "slm"}

\* The top-level keys a record must carry: both parsers' layouts of the
\* contact fields are accepted.
HasEveryKey(rec) ==
    /\ {"name", "summary", "skills", "education", "experience"} \subseteq DOMAIN rec
    /\ \/ {"email", "phone"} \subseteq DOMAIN rec
       \/ "contact_info" \in DOMAIN rec

\* C2: the top-level parser is total: for every text, and whichever internal
\* step raises, a finished call has returned (no unhandled exception) a
\* record that carries every documented top-level key.
C2_ParserTotal ==
    ParseDone => /\ p_out.kind = "ok"
                 /\ HasEveryKey(p_out.rec)

\* The values that stand for an absent string.
Sentinels == {"N/A", NoneStr}

\* C3: for the empty text the parser raises nothing and returns the fully
\* sentinel-valued record: name, email and phone are the sentinel, skills is
\* the sentinel list, education and experience are empty lists.
C3_EmptyInputSentinel ==
    (ParseDone /\ p_in.text.empty) =>
        /\ p_out.kind = "ok"
        /\ p_out.rec.name \in Sentinels
        /\ IF "contact_info" \in DOMAIN p_out.rec
           THEN /\ p_out.rec.contact_info.email \in Sentinels
                /\ p_out.rec.contact_info.phone \in Sentinels
           ELSE /\ p_out.rec.email \in Sentinels
                /\ p_out.rec.phone \in Sentinels
        /\ p_out.rec.skills = <<"N/A">>
        /\ p_out.rec.education = <<>>
        /\ p_out.rec.experience = <<>>

\* C4: when the model fails to load, parsing a non-empty text degrades
\* silently: the regex-only steps still fill their fields (the contact
\* fields and the summary hold what the patterns find) and no error is
\* surfaced in place of a field value.
C4_SilentDegradation ==
    (/\ ParseDone /\ p_in.parser = "slm" /\ ~p_in.text.empty
     /\ p_in.fault = "none" /\ loadFailed /\ ner_pipeline = None) =>
        /\ p_out.kind = "ok"
        /\ p_out.rec.name # "ERROR: SLM Model Not Loaded"
        /\ p_out.rec.contact_info.email = OrElse(p_in.text.email, NoneStr)
        /\ p_out.rec.contact_info.phone = OrElse(p_in.text.phone, NoneStr)
        /\ p_in.text.summary # "" => p_out.rec.summary = p_in.text.summary

\* C5: a finished call of extract_entities_from_text has returned a list and
\* never raised, whatever the state of the model and whether or not the
\* inference failed; it returned the empty list whenever the model was not
\* available to the call.
C5_ExtractNeverRaises ==
    \A t \in Threads :
        th[t].pc = "ext_done" =>
            /\ th[t].ext.kind = "list"
            /\ (~th[t].avail => th[t].ext.val = <<>>)

\* C5 witness: after a failed load, a call on a non-empty text returned [].
C5_Witness ==
    \E t \in Threads :
        /\ th[t].pc = "ext_done"
        /\ th[t].text
        /\ loadFailed
        /\ ner_pipeline = None
        /\ th[t].ext = Returned(<<>>)

\* The value a field of the utils record has when its own step is the only
\* thing that can fail: the step's value, or the field's sentinel.
FieldAlone(step, t) ==
    LET o == UtilsStep(step, t, "none")
        rec == IF o.raises THEN UtilsDefaults
               ELSE [UtilsDefaults EXCEPT ![step] = o.val]
    IN UtilsPlaceholders(rec)[step]

\* C6: an exception raised while extracting one field degrades only that
\* field: every other field, extracted before or after the failing step,
\* has the value it would have had without the failure.
C6_OnlyFailingFieldDegrades ==
    (/\ ParseDone /\ p_in.parser = "utils" /\ ~p_in.text.empty
     /\ p_in.fault # "nlp") =>
        /\ p_out.kind = "ok"
        /\ \A i \in 1..Len(UtilsSteps) :
              UtilsSteps[i] # p_in.fault =>
                  p_out.rec[UtilsSteps[i]] = FieldAlone(UtilsSteps[i], p_in.text)

\* The comparison has finished.
MatchDone == m_out # Pending

\* The engines whose two inputs are the two skill sets.
SetEngines == {"core", "page"}

\* The resume skill set, compared case-insensitively.
ResumeSet(skills) == {Lower(x) : x \in Range(skills) \ {<<>>}}

\* The score is n / d percent, exactly or rounded to two decimals.
ScoreIs(score, n, d) ==
    \/ score.num * d = n * score.den
    \/ score.den = 100 /\ score.num = RoundDiv(100 * n, d)

\* C7: for every pair of resume and job skill sets the score equals
\* 100 * |matchingSkills| / |jobSkills| when jobSkills is not empty, and 0
\* when it is empty.
C7_ScoreFormula ==
    (MatchDone /\ m_out.engine \in SetEngines /\ m_out.shown) =>
        IF m_out.job = {}
        THEN m_out.score.num = 0
        ELSE ScoreIs(m_out.score, 100 * Cardinality(m_out.matching),
                     Cardinality(m_out.job))

\* C8: if the resume skill set equals the job skill set, compared
\* case-insensitively, and the job skill set is not empty, the score is 100
\* and no skill is missing.
C8_EqualSetsFullScore ==
    (/\ MatchDone /\ m_out.engine \in SetEngines
     /\ m_out.job # {} /\ ResumeSet(m_in.skills) = m_out.job) =>
        /\ m_out.shown
        /\ m_out.score.num = 100 * m_out.score.den
        /\ m_out.missing = {}

\* C8 witness: the core comparison of a resume that writes its two skills
\* in another casing than the job does, scored 100.
C8_Witness ==
    /\ MatchDone /\ m_out.engine = "core"
    /\ Cardinality(m_out.job) = 2
    /\ ResumeSet(m_in.skills) = m_out.job
    /\ Range(m_in.skills) \cap m_out.job = {}
    /\ m_out.score = Score(10000, 100)
    /\ m_out.missing = {}

\* C9: when the resume skill set is empty and the job skill set is not, the
\* engine still produces a result: the score is 0 and the missing skills
\* are the whole job skill set.
C9_EmptyResumeAllMissing ==
    (/\ MatchDone /\ m_out.engine \in SetEngines
     /\ ResumeSet(m_in.skills) = {} /\ m_out.job # {}) =>
        /\ m_out.shown
        /\ m_out.score.num = 0
        /\ m_out.missing = m_out.job

\* C10: a resume skill is reported among the matching skills if and only if,
\* lower-cased, it equals a job skill or is a substring of one; it is
\* reported in the casing of the resume.
C10_MatchingRule ==
    (MatchDone /\ m_out.shown) =>
        \A x \in Range(m_in.skills) \ {<<>>} :
            x \in m_out.matching <=> \E k \in m_out.job : Contains(k, Lower(x))

\* C11: a job skill is reported among the missing skills if and only if no
\* resume skill equals it and no resume skill is a substring of it; every
\* job skill in that case is reported.
C11_MissingRule ==
    (MatchDone /\ m_out.engine \in SetEngines /\ m_out.shown) =>
        \A k \in m_out.job :
            k \in m_out.missing <=>
                ~\E x \in ResumeSet(m_in.skills) : Contains(k, x)

\* C12: for every pair of resume and job skill sets the score lies between
\* 0 and 100 inclusive, also when several resume skills match the same job
\* skill by substring.
C12_ScoreRange ==
    (MatchDone /\ m_out.shown) =>
        /\ 0 <= m_out.score.num
        /\ m_out.score.num <= 100 * m_out.score.den

\* C12 witness: two resume skills are substrings of the one job keyword,
\* both are reported, and the score is 66.67.
C12_Witness ==
    /\ MatchDone /\ m_out.engine = "core"
    /\ Cardinality(m_out.job) = 1
    /\ Cardinality(m_out.matching) = 2
    /\ \A x \in m_out.matching : \A k \in m_out.job : Contains(k, x) /\ x # k
    /\ m_out.score = Score(6667, 100)

FreshResponse(r) ==
    compare_resume_with_job_endpoint(r.input.job, r.input.resume, None, None)

AllSentinel(e) == \A f \in DOMAIN e : e[f] = "N/A"

\* C15: in every record a parser returns, no education or experience entry
\* has all of its fields equal to the sentinel, and a section with no
\* candidate block yields an empty list.
C15_NoAllSentinelEntry ==
    (ParseDone /\ p_out.kind = "ok") =>
        /\ \A i \in DOMAIN p_out.rec.education : ~AllSentinel(p_out.rec.education[i])
        /\ \A i \in DOMAIN p_out.rec.experience : ~AllSentinel(p_out.rec.experience[i])
        /\ p_in.text.edu = <<>> => p_out.rec.education = <<>>
        /\ p_in.text.exp = <<>> => p_out.rec.experience = <<>>

\* The entries that stand for "nothing parsed" in a returned record.
PlaceholderEntries ==
    Range(UtilsPlaceholders(UtilsDefaults).education)
    \cup Range(UtilsPlaceholders(UtilsDefaults).experience)
    \cup Range(SlmNoEducation("Education section not found."))
    \cup Range(SlmNoEducation("No specific education entries parsed from section."))
    \cup Range(SlmNoExperience("Experience section not found."))
    \cup Range(SlmNoExperience("No specific experience entries parsed."))

NotPlaceholder(e) == e \notin PlaceholderEntries

\* The entries a finished call emitted for the blocks of a section.
Emitted(section) ==
    IF p_out.kind = "ok" THEN SelectSeq(p_out.rec[section], NotPlaceholder)
    ELSE IF p_out.kind = "entries" /\ p_in.parser = "parse_" \o section
         THEN p_out.entries
    ELSE <<>>

\* The date an entry carries, under the key its parser uses.
EntryDate(e) ==
    IF "date" \in DOMAIN e THEN e.date
    ELSE IF "date_range" \in DOMAIN e THEN e.date_range
    ELSE e.dates

\* The entries come from blocks of at least min characters only: there are
\* no more entries than such blocks, and none carries the date of a shorter
\* block (the dates of Blocks are pairwise distinct).
FromLongBlocksOnly(entries, blocks, min) ==
    /\ Len(entries) <= Cardinality({i \in DOMAIN blocks : blocks[i].len >= min})
    /\ \A i \in DOMAIN entries : \A j \in DOMAIN blocks :
          (blocks[j].len < min /\ blocks[j].date # "") =>
              EntryDate(entries[i]) # blocks[j].date

\* C16: no entry is emitted for a candidate block whose stripped length is
\* below 10 characters (education) or 15 characters (experience).
C16_NoEntryBelowThreshold ==
    p_out # Pending =>
        /\ FromLongBlocksOnly(Emitted("education"), p_in.text.edu, 10)
        /\ FromLongBlocksOnly(Emitted("experience"), p_in.text.exp, 15)

\* A section of a short dated block followed by a long one gave one entry,
\* the long block's, in both parsers' education code.
C16_Witness ==
    /\ p_in.parser \in {"slm", "parse_education"}
    /\ p_out.kind \in {"ok", "entries"}
    /\ Len(p_in.text.edu) = 2
    /\ p_in.text.edu[1].len < 10 /\ p_in.text.edu[1].date # ""
    /\ Len(Emitted("education")) = 1
    /\ EntryDate(Emitted("education")[1]) = p_in.text.edu[2].date

\* A block of the education section that fails: too short, raising, or with
\* nothing recognisable in it.
EducationBlockFails(b) ==
    \/ b.len < 10
    \/ b.raises
    \/ (b.f1 = "" /\ b.f2 = "" /\ b.date = "")

\* A block of the experience section that fails: too short, or long enough
\* to reach line 267, which raises NameError.
ExperienceBlockFails(b) == b.len < 15 \/ b.len >= 15

Remaining(blocks, Fails(_)) == SelectSeq(blocks, LAMBDA b : ~Fails(b))

\* What identifies the block an education entry was built from.
BlockKey(b) == <<OrElse(b.f1, "N/A"), OrElse(b.f2, "N/A"), OrElse(b.date, "N/A")>>
EntryKey(e) == <<e.degree, e.institution, e.date>>

JobDone == j_out # Pending

\* The text analyze_job_text was given.
GivenJobText == JobText(j_in.words, j_in.phrase)

\* The fixed order of the seniority levels, highest first.
SeniorityOrder ==
    <<"Manager", "Principal", "Staff", "Lead", "Senior", "Mid-Level", "Junior">>

\* C18: the reported seniority is the highest level, in the order Manager >
\* Principal > Staff > Lead > Senior > Mid-Level > Junior, one of whose
\* keywords is in the text, wherever the keywords stand; with no keyword
\* the sentinel is reported.
C18_SeniorityPriority ==
    JobDone =>
        LET found == found_seniorities(GivenJobText)
        IN IF found = {} THEN j_out.seniority = "N/A"
           ELSE \E k \in DOMAIN SeniorityOrder :
                   /\ j_out.seniority = SeniorityOrder[k]
                   /\ SeniorityOrder[k] \in found
                   /\ \A h \in 1..(k - 1) : SeniorityOrder[h] \notin found

\* "senior" stands before "lead" in the text, and Lead is reported.
C18_Witness ==
    /\ JobDone
    /\ j_in.words = <<"senior", "lead">>
    /\ j_out.seniority = "Lead"

\* The number a spelled-out word stands for.
SpelledValue == [a |-> "1", one |-> "1", five |-> "5"]

\* The phrase is a years-of-experience phrase of a recognized kind.
RecognizedPhrase(p) ==
    p.kind # "none" /\ \E k \in DOMAIN p.tail : p.tail[k] = "experience"

\* The canonical form of a phrase.
CanonicalYears(p) ==
    CASE p.kind \in {"plus", "at least", "minimum"} -> p.a \o "+ years"
      [] p.kind \in {"range", "range to"} -> p.a \o "-" \o p.b \o " years"
      [] p.kind = "single" -> p.a \o " years"
      [] p.kind = "spelled" -> SpelledValue[p.a] \o " years"
      [] p.kind = "spelled range" ->
            SpelledValue[p.a] \o "-" \o SpelledValue[p.b] \o " years"

\* C19: for a job text with a years-of-experience phrase of a recognized
\* kind, experience_years is the canonical form of the phrase: "{n}+ years"
\* for plus / at least / minimum, "{a}-{b} years" for a range, "{n} years"
\* for a single number; never the sentinel or the matched phrase.
C19_CanonicalYears ==
    (JobDone /\ RecognizedPhrase(j_in.phrase)) =>
        j_out.experience_years = CanonicalYears(j_in.phrase)


\* ---------------------------------------------------------------------
\* Section extraction
\* ---------------------------------------------------------------------

\* Both extractors have run on the text.
SegDone == s_out.slm # Pending /\ s_out.utils # Pending

\* The lines that are section headers.
HeaderLines == {"summary", "skills", "education", "experience"}

\* The captured text stops before the next header line: it holds no header.
StopsAtHeader(captured) ==
    captured # None => \A k \in DOMAIN captured[1] : captured[1][k] \notin HeaderLines

\* No line of the text is a header of the section.
HeaderAbsent(section) == \A k \in DOMAIN s_in.lines : s_in.lines[k] # section

\* C20: the text captured for a section ends before the next line that is
\* a known section header (the skills block holds nothing from the
\* Education header line on), and a section whose header is absent yields
\* None.
C20_SectionEndsAtNextHeader ==
    SegDone =>
        /\ \A section \in DOMAIN s_out.slm :
              /\ StopsAtHeader(s_out.slm[section])
              /\ HeaderAbsent(section) => s_out.slm[section] = None
        /\ \A section \in DOMAIN s_out.utils :
              /\ StopsAtHeader(s_out.utils[section])
              /\ HeaderAbsent(section) => s_out.utils[section] = None


\* ---------------------------------------------------------------------
\* Backend: fallback to the stored values, and when they change
\* ---------------------------------------------------------------------

\* A payload value that is present and well-formed, or absent.
JobGiven(pj) == pj # None /\ pj[1].words # <<>>
ResumeGiven(pr) == pr # None /\ pr[1].dict /\ ~pr[1].empty

\* The step stores what a successful request of its kind brings.
StoresOnSuccess ==
    /\ (b_last'.kind = "analyze" /\ b_last'.resp.status = 200) =>
          last_analyzed_resume_slm' = <<b_last'.input.parsed>>
    /\ (b_last'.kind = "scrape" /\ b_last'.resp.status = 200) =>
          last_job_description_text' = <<b_last'.input.text>>
    /\ (b_last'.kind = "analyze_text" /\ b_last'.resp.status = 200) =>
          last_job_description_text' = <<StripText(b_last'.input)>>

\* The compare request of the step took each input from the payload when
\* it is given there, else from the stored values, and answered 400 when
\* one of them is nowhere.
ComparesWithFallback ==
    LET pj == b_last'.input.job
        pr == b_last'.input.resume
        job == IF JobGiven(pj) THEN pj ELSE last_job_description_text
        resume == IF ResumeGiven(pr) THEN pr ELSE last_analyzed_resume_slm
    IN ((JobGiven(pj) \/ pj = None) /\ (ResumeGiven(pr) \/ pr = None)) =>
          IF job = None \/ resume = None
          THEN b_last'.resp.status = 400
          ELSE b_last'.resp =
                  Response(200, [match |->
                      compare_resume_to_job_description(resume[1].skills, job[1].words)])

\* C23: POST /job/compare-resume takes the job text and the resume data
\* from the payload when present and otherwise the values stored by the
\* most recent successful /job/scrape-url, /job/analyze-text and
\* /resume/analyze request; with neither for one input it answers 400 and
\* compares nothing.
C23_CompareFallback ==
    [][/\ StoresOnSuccess
       /\ b_last'.kind = "compare" => ComparesWithFallback]_vars

\* A comparison of the payload's job text with the stored resume.
C23_Witness ==
    /\ b_last.kind = "compare"
    /\ b_last.resp.status = 200
    /\ b_last.input.job = <<JobTextB>>
    /\ b_last.input.resume = None
    /\ last_analyzed_resume_slm = <<ResumeB>>
    /\ b_last.resp.body.match.matching # {}

\* C24: a /resume/analyze, /job/scrape-url or /job/analyze-text request
\* that ends with an error status leaves both stored values as they were,
\* and a successful one replaces only its own stored value.
C24_StoredChangeOnlyOnSuccess ==
    [][b_last'.kind \in {"analyze", "scrape", "analyze_text"} =>
          /\ b_last'.resp.status # 200 =>
                /\ last_analyzed_resume_slm' = last_analyzed_resume_slm
                /\ last_job_description_text' = last_job_description_text
          /\ b_last'.kind = "analyze" =>
                last_job_description_text' = last_job_description_text
          /\ b_last'.kind \in {"scrape", "analyze_text"} =>
                last_analyzed_resume_slm' = last_analyzed_resume_slm]_vars

\* A scrape that failed after a job text and a resume had been stored.
C24_Witness ==
    /\ b_last.kind = "scrape"
    /\ b_last.resp.status \in {422, 500}
    /\ last_job_description_text = <<JobTextA>>
    /\ last_analyzed_resume_slm = <<ResumeA>>


\* ---------------------------------------------------------------------
\* Loader: idempotence
\* ---------------------------------------------------------------------

\* C30: a call of load_slm_model that finds the model loaded constructs
\* nothing and returns the handle it found, the one of the first
\* successful load.
C30_LoadIdempotent ==
    \A t \in Threads :
        th[t].seen # None =>
            /\ th[t].pc \notin {"load_construct", "load_store", "load_except"}
            /\ th[t].pc = "load_done" => th[t].ret = th[t].seen


\* ---------------------------------------------------------------------
\* Page comparison: the three lists
\* ---------------------------------------------------------------------

\* The skills of a resume: its entries without the empty ones and without
\* the sentinel, which stands for "no skill", compared case-insensitively.
SkillsOf(skills) == ResumeSet(SelectSeq(skills, LAMBDA x : x # N_A))

\* C28: in the comparison of the Job Analyzer page with a non-empty set of
\* job skills, the matching and the missing skills partition the job
\* skills, and the additional skills are the resume skills minus the job
\* skills, disjoint from both.
C28_PagePartition ==
    (MatchDone /\ m_out.engine = "page" /\ m_out.shown) =>
        /\ m_out.job # {}
        /\ m_out.matching \cap m_out.missing = {}
        /\ m_out.matching \cup m_out.missing = m_out.job
        /\ m_out.additional = SkillsOf(m_in.skills) \ m_out.job
        /\ m_out.additional \cap m_out.matching = {}
        /\ m_out.additional \cap m_out.missing = {}

\* A comparison in which each of the three lists holds a skill.
C28_Witness ==
    /\ MatchDone /\ m_out.engine = "page" /\ m_out.shown
    /\ m_out.matching # {} /\ m_out.missing # {} /\ m_out.additional # {}

\* ---------------------------------------------------------------------
\* Resume Builder page: the step index
\* ---------------------------------------------------------------------

\* C29: the step index of the Resume Builder stays within 0..7; Next adds
\* one and is taken only below the last step, Previous subtracts one and is
\* taken only above the first step, and Start Over sets the index to 0 and
\* every form field to its default.
C29_StepIndexInRange ==
    [][/\ rb_step_index \in 0..7 /\ rb_step_index' \in 0..7
       /\ rb_click' = "next" =>
             rb_step_index < 7 /\ rb_step_index' = rb_step_index + 1
       /\ rb_click' = "previous" =>
             rb_step_index > 0 /\ rb_step_index' = rb_step_index - 1
       /\ rb_click' = "reset" =>
             rb_step_index' = 0 /\ rb_fields' = RB_FIELDS_DEFINITIONS
       /\ rb_click' = "edit" => rb_step_index' = rb_step_index]_vars

\* The last step has been reached with some fields filled in.
C29_Witness ==
    /\ rb_step_index = 7
    /\ rb_click = "next"
    /\ rb_fields.rb_name # ""
    /\ rb_fields.rb_experience # <<>>

\* ---------------------------------------------------------------------
\* Router: the job-description store
\* ---------------------------------------------------------------------

\* The request handled last names an id: a GET, a DELETE, or a match-jobs
\* request with a job_description_id and a well-formed parsed resume.
ById(r) ==
    \/ r.kind \in {"get", "delete"}
    \/ r.kind = "match" /\ r.input.job_description_id # None /\ r.input.parsed_resume.ok

RequestedId(r) == IF r.kind = "match" THEN r.input.job_description_id[1] ELSE r.input

\* The ids added and not deleted since: those handed out and still stored.
LiveIds(JD, issued) == {i \in 1..issued : JD[i] # None}

\* C26: a GET, a DELETE or a match-jobs request by id is answered 200
\* exactly when the id was added and not deleted since, and 404 otherwise;
\* a request answered 404 leaves the store unchanged, a DELETE answered 200
\* removes exactly its id (so that a second DELETE of it is answered 404),
\* and an add makes exactly its new id live.
C26_StoreMembership ==
    [][/\ ById(r_last') =>
            /\ r_last'.resp.status =
                  (IF RequestedId(r_last') \in LiveIds(JOB_DESCRIPTIONS, jd_issued)
                   THEN 200 ELSE 404)
            /\ r_last'.resp.status = 404 => JOB_DESCRIPTIONS' = JOB_DESCRIPTIONS
       /\ r_last'.kind = "delete" /\ r_last'.resp.status = 200 =>
            LiveIds(JOB_DESCRIPTIONS', jd_issued') =
                LiveIds(JOB_DESCRIPTIONS, jd_issued) \ {r_last'.input}
       /\ r_last'.kind \in {"get", "match"} => JOB_DESCRIPTIONS' = JOB_DESCRIPTIONS
       /\ r_last'.kind = "add" =>
            /\ r_last'.resp.body.id \notin LiveIds(JOB_DESCRIPTIONS, jd_issued)
            /\ LiveIds(JOB_DESCRIPTIONS', jd_issued') =
                  LiveIds(JOB_DESCRIPTIONS, jd_issued) \cup {r_last'.resp.body.id}]_vars

\* An id that was added and deleted is deleted again and answered 404 while
\* another id is still stored.
C26_Witness ==
    /\ r_last.kind = "delete" /\ r_last.resp.status = 404
    /\ r_last.input \in 1..jd_issued
    /\ LiveIds(JOB_DESCRIPTIONS, jd_issued) # {}

\* ---------------------------------------------------------------------
\* Backend: the resume of the builder
\* ---------------------------------------------------------------------

\* C25: the builder's stored resume starts as the default template; a PUT
\* answered 200 replaces it by its payload, a PUT that is rejected and every
\* download-pdf request leave it unchanged, and GET returns it unchanged.
\* Hence GET returns the payload of the most recent successful PUT, or the
\* default template if there was none.
C25_BuilderResume ==
    /\ current_resume_data = <<DEFAULT_RESUME_STRUCTURE>>
    /\ [][/\ current_resume_data # None
          /\ b_last'.kind = "builder_put" =>
                IF b_last'.resp.status = 200
                THEN current_resume_data' = <<b_last'.input>>
                ELSE current_resume_data' = current_resume_data
          /\ b_last'.kind = "builder_put" /\ b_last'.input = EmptyObject =>
                b_last'.resp.status = 400
          /\ b_last'.kind = "builder_pdf" => current_resume_data' = current_resume_data
          /\ b_last'.kind = "builder_get" =>
                /\ b_last'.resp = Response(200, current_resume_data[1])
                /\ current_resume_data' = current_resume_data]_vars

\* A PUT is rejected with 400 after another PUT had replaced the template.
C25_Witness ==
    /\ b_last.kind = "builder_put" /\ b_last.resp.status = 400
    /\ current_resume_data # None
    /\ current_resume_data[1] # DEFAULT_RESUME_STRUCTURE

\* ---------------------------------------------------------------------
\* Job Analyzer: a failed scrape
\* ---------------------------------------------------------------------

\* The error messages of the scraper for a URL.
ScraperErrors(url) == scrape_job_posting(url) \ {ScrapedPosting}

\* The scrape of the submission handled last failed.
ScrapeFailed ==
    /\ ja_last.kind \in {"page", "app"}
    /\ ja_last.scraped # None
    /\ ja_last.scraped[1] \in ScraperErrors(ja_last.url)

\* C27: when the scraper answers one of its error messages, no job
\* description text is stored and no analysis is run; the message is
\* neither stored as job_description_text nor given to analyze_job_text,
\* whether or not text was pasted as well.
C27_FailedScrapeStoresNothing ==
    ScrapeFailed =>
        /\ job_description_text = <<>>
        /\ job_analysis_results = None
        /\ ja_last.analysed = None

\* The same for the page module alone.
C27_PageOnly == ja_last.kind = "page" => C27_FailedScrapeStoresNothing

\* ---------------------------------------------------------------------
\* Parsers: the skills field
\* ---------------------------------------------------------------------

\* The values that stand for "no skill" in a skills list.
SkillSentinels ==
    {"N/A", "Skills section not found.",
     "Skills not specifically itemized or section not found."}

\* The text lists skills the extraction recognises.
TextHasSkills(t) == ~t.empty /\ t.skillsec = "listed"

\* A list in the order of SkillOrder, without repetition.
SortedNoDuplicates(q) == q = SelectSeq(SkillOrder, LAMBDA s : s \in Range(q))

\* C21: the skills field of every record a resume parser returns is a
\* non-empty list: the list of the sentinel alone exactly when the text
\* yields no skill, and otherwise the sorted, duplicate-free skills that
\* were extracted, without the sentinel.
C21_SkillsField ==
    (ParseDone /\ p_out.kind = "ok") =>
        LET skills == p_out.rec.skills
        IN /\ skills # <<>>
           /\ (\E x \in SkillSentinels : skills = <<x>>) <=> ~TextHasSkills(p_in.text)
           /\ TextHasSkills(p_in.text) =>
                 /\ SortedNoDuplicates(skills)
                 /\ Range(skills) \cap SkillSentinels = {}

\* The same for the texts with a skills section that the SLM parser handles
\* with the model loaded.
C21_SlmWithModel ==
    (/\ ParseDone /\ p_out.kind = "ok" /\ p_in.parser = "slm"
     /\ ~p_in.text.empty /\ p_out.rec.name # "ERROR: SLM Model Not Loaded") =>
        C21_SkillsField

\* ---------------------------------------------------------------------
\* SLM parser: the date of an entry
\* ---------------------------------------------------------------------

\* The entry has been handled.
DatesDone == d_out # Pending /\ d_out # None

\* The patterns of the ordered list that match the entry text.
MatchingPatterns(t) == {k \in 1..DatePatternCount : FindAll(k, t, 1) # <<>>}

\* The matches of the highest-priority pattern that matches.
FirstPatternMatches(t) ==
    LET k == CHOOSE k \in MatchingPatterns(t) : \A l \in MatchingPatterns(t) : k <= l
    IN {FindAll(k, t, 1)[j] : j \in 1..Len(FindAll(k, t, 1))}

\* The words of s stand somewhere in t.
Occurs(t, s) ==
    \E i \in 1..Len(t) : i + Len(s) - 1 <= Len(t) /\ SubSeq(t, i, i + Len(s) - 1) = s

\* The date is cut out of the text that is parsed further.
DateRemoved ==
    (DatesDone /\ MatchingPatterns(d_in) # {}) => ~Occurs(d_out.rest, d_out.dates)

\* C22: when several date patterns match an entry block, the date field is
\* a match of the highest-priority pattern among them, never one of a
\* lower-priority pattern, and the matched text no longer occurs in the
\* text from which title, company and description are taken.
C22_FirstPatternWins ==
    (DatesDone /\ Cardinality(MatchingPatterns(d_in)) > 1) =>
        /\ d_out.dates \in FirstPatternMatches(d_in)
        /\ ~Occurs(d_out.rest, d_out.dates)

====
